---- MODULE Spec2Model ----
\* Floor-is-Lava: the real-time state pipeline.
\*   smoothing.py       LavaSmoother            (debouncer)
\*   mapping.py         PixelToGridMapper       (plain mapper)
\*   robust_mapping.py  RobustPixelToGridMapper (mapper the server uses)
\*   tracker.py         MultiPersonTracker
\*   robust_server.py   RobustLavaServer        (tick loop, commands)
EXTENDS Integers, Sequences, FiniteSets, TLC

VARIABLES
    \* ---- LavaSmoother (smoothing.py:13-23)
    k,              \* self.k
    m,              \* self.m
    state,          \* self.state: (player_id, foot) -> record
    frame_index,    \* self.frame_index
    obsLog,         \* per key, the history of its observe calls: what was passed and returned
    \* ---- PixelToGridMapper / RobustPixelToGridMapper (mapping.py:9-22, robust_mapping.py:14-31)
    H,              \* self.H: a 3x3 matrix, or <<>> for None
    mapper_rows,    \* the mapper's self.rows
    mapper_cols,    \* the mapper's self.cols
    mapped,         \* the last pixel_to_grid_cell call: which mapper, the pixel, the result
    \* ---- MultiPersonTracker (tracker.py:16-20)
    next_id,        \* self.next_id
    objects,        \* self.objects: id -> [last_det, centroid]
    disappeared,    \* self.disappeared: id -> frames since last seen
    max_disappeared,\* self.max_disappeared
    last,           \* the last update call: its input, what it found and what it did
    \* ---- RobustLavaServer (robust_server.py:30-83)
    rows,           \* self.rows
    cols,           \* self.cols
    lava_tiles,     \* self.lava_tiles
    frame_id,       \* self.frame_id
    game_active,    \* self.game_active
    collision_detected, \* self.collision_detected
    collision_message,  \* self.collision_message: <<>> for "", else the person and cell named
    collision_age,  \* time.time() - self.last_collision_time at the last pass of the loop,
                    \* in seconds, capped at one above the cooldown
    clients,        \* self.clients
    demo_enabled,   \* self.demo_enabled
    demo_tiles_num, \* self.demo_tiles_num
    last_demo_time, \* self.last_demo_time: "never" for 0.0, "set" for a time.time()
    udp_enabled,    \* self.udp_enabled
    running,        \* the loop of run() has been entered and not been left
    pc,             \* where run() is: "start" before websockets.serve, "loop" at the sleep
                    \* of the loop (or past the loop, if not running), "sent" after
                    \* broadcasts that awaited, "done" when it has returned or raised
    broadcasts,     \* what the last pass of the loop delivered: payload, recipients, mirror
    tick,           \* the last pass of the loop: persons, hazard tests, events, and the
                    \* time since an event was last queued
    hist            \* what a specification records of the steps taken: the message a
                    \* handler took since the loop last ran, with the state it found
                    \* (SpecCommands), the passes of the loop so far (SpecScenario), the
                    \* calls made on the listener, the camera and the detector (SpecRun),
                    \* or the lava_tiles the last pass found (SpecHazard);
                    \* <<>> for nothing

smVars == <<k, m, state, frame_index, obsLog>>
mapVars == <<H, mapper_rows, mapper_cols, mapped>>
trkVars == <<next_id, objects, disappeared, max_disappeared, last>>

srvVars == <<rows, cols, lava_tiles, frame_id, game_active, collision_detected,
            collision_message, collision_age, clients, demo_enabled, demo_tiles_num,
            last_demo_time, udp_enabled, running, pc, broadcasts, tick, hist>>

vars == <<smVars, mapVars, trkVars, srvVars>>

\* ------------------------------------------------------------------ bounds
MaxK == 3           \* k_consecutive is drawn from 0..MaxK
MaxM == 2           \* m_clear is drawn from 0..MaxM
MaxObs == 5         \* observe calls in one run of the smoother
MaxFrame == 1       \* next_frame calls in one run of the smoother
MaxTicks == 2       \* passes of the server's loop in one run
MaxDemoTiles == 1   \* demo_tiles_num, the cells one demo fill draws

MaxDets == 2        \* detections in one update call
MaxIds == 3         \* ids handed out in one run of the tracker
MaxGone == 1        \* max_disappeared, in place of the default of 30

MaxDistance == 50   \* max_distance
DefaultK == 3       \* k_consecutive
DefaultM == 2       \* m_clear
DefaultRows == 8    \* self.rows
DefaultCols == 8    \* self.cols
CollisionCooldown == 2  \* self.collision_cooldown, in seconds

PlayerIds == {1}
Feet == {"left", "right"}
ObsCells == {<<0, 0>>, <<2, 3>>}

\* ------------------------------------------------------------ LavaSmoother
\* smoothing.py:30-37: the record a key gets on its first observation.
NewKeyState(fi, row, col) ==
    [last_frame |-> fi, lava_run |-> 0, safe_run |-> 0,
     is_on_lava |-> FALSE, last_cell |-> <<row, col>>]

\* Mutant: the run of the other sign is not reset.
UpdateRuns_NoReset(s, fi, row, col, is_lava) ==
    IF is_lava
    THEN [s EXCEPT !.last_cell = <<row, col>>, !.last_frame = fi, !.lava_run = @ + 1]
    ELSE [s EXCEPT !.last_cell = <<row, col>>, !.last_frame = fi, !.safe_run = @ + 1]

\* Mutant: a non-hazard observation leaves the hazard run as it is.
UpdateRuns_KeepLavaRun(s, fi, row, col, is_lava) ==
    IF is_lava
    THEN [s EXCEPT !.last_cell = <<row, col>>, !.last_frame = fi,
                   !.lava_run = @ + 1, !.safe_run = 0]
    ELSE [s EXCEPT !.last_cell = <<row, col>>, !.last_frame = fi,
                   !.safe_run = @ + 1]

\* smoothing.py:39-49: last_cell, last_frame and the two run counters.
UpdateRuns(s, fi, row, col, is_lava) ==
    IF is_lava
    THEN [s EXCEPT !.last_cell = <<row, col>>, !.last_frame = fi,
                   !.lava_run = @ + 1, !.safe_run = 0]
    ELSE [s EXCEPT !.last_cell = <<row, col>>, !.last_frame = fi,
                   !.safe_run = @ + 1, !.lava_run = 0]

\* Mutant: the threshold must be exceeded, not reached.
Triggered_Late(s, is_lava, kk) ==
    is_lava /\ ~s.is_on_lava /\ s.lava_run > kk

\* Mutant: level-triggered, the flag is not consulted.
Triggered_Level(s, is_lava, kk) ==
    is_lava /\ s.lava_run >= kk

\* smoothing.py:54: the trigger condition, on the record with its runs updated.
Triggered(s, is_lava, kk) ==
    is_lava /\ ~s.is_on_lava /\ s.lava_run >= kk

\* Mutant: any single safe observation clears the flag.
Cleared_AnySafe(s, is_lava, mm) ==
    s.is_on_lava /\ ~is_lava

\* smoothing.py:59: the clear condition, after the trigger was applied.
Cleared(s, is_lava, mm) ==
    s.is_on_lava /\ ~is_lava /\ s.safe_run >= mm

\* smoothing.py:39-62: the record of the key after observe.
ObserveRecord(s, fi, row, col, is_lava, kk, mm) ==
    LET s2 == UpdateRuns(s, fi, row, col, is_lava)
        s3 == IF Triggered(s2, is_lava, kk) THEN [s2 EXCEPT !.is_on_lava = TRUE] ELSE s2
    IN  IF Cleared(s3, is_lava, mm) THEN [s3 EXCEPT !.is_on_lava = FALSE] ELSE s3

\* smoothing.py:51-62: the value observe returns.
ObserveReturn(s, fi, row, col, is_lava, kk) ==
    Triggered(UpdateRuns(s, fi, row, col, is_lava), is_lava, kk)

\* The record observe works on: the key's own, or a fresh one (smoothing.py:30-39).
KeyState(st, fi, key, row, col) ==
    IF key \in DOMAIN st THEN st[key] ELSE NewKeyState(fi, row, col)

\* self.state after observe(player_id, foot, row, col, is_lava).
ObserveState(st, fi, key, row, col, is_lava, kk, mm) ==
    [x \in DOMAIN st \cup {key} |->
        IF x = key
        THEN ObserveRecord(KeyState(st, fi, key, row, col), fi, row, col, is_lava, kk, mm)
        ELSE st[x]]

\* One entry of a key's call history.
LogEntry(st, fi, key, row, col, is_lava, kk, mm) ==
    [is_lava |-> is_lava,
     ret |-> ObserveReturn(KeyState(st, fi, key, row, col), fi, row, col, is_lava, kk),
     on_before |-> KeyState(st, fi, key, row, col).is_on_lava,
     on_after |-> ObserveRecord(KeyState(st, fi, key, row, col), fi, row, col, is_lava, kk, mm).is_on_lava,
     runs_before |-> <<KeyState(st, fi, key, row, col).lava_run,
                       KeyState(st, fi, key, row, col).safe_run>>,
     runs_after |-> <<ObserveRecord(KeyState(st, fi, key, row, col), fi, row, col, is_lava, kk, mm).lava_run,
                      ObserveRecord(KeyState(st, fi, key, row, col), fi, row, col, is_lava, kk, mm).safe_run>>]

\* The history with this call added to its key's.
Logged(log, st, fi, key, row, col, is_lava, kk, mm) ==
    [log EXCEPT ![key] = Append(@, LogEntry(st, fi, key, row, col, is_lava, kk, mm))]

RECURSIVE SumLen(_, _)
SumLen(log, keys) ==
    IF keys = {} THEN 0
    ELSE LET x == CHOOSE y \in keys : TRUE
         IN  Len(log[x]) + SumLen(log, keys \ {x})

\* Number of observe calls made so far.
ObsCount(log) == SumLen(log, DOMAIN log)

\* smoothing.py:25-26
next_frame ==
    /\ frame_index < MaxFrame
    /\ frame_index' = frame_index + 1
    /\ UNCHANGED <<k, m, state, obsLog>>
    /\ UNCHANGED <<mapVars, trkVars, srvVars>>

\* smoothing.py:28-62
observe(player_id, foot, row, col, is_lava) ==
    /\ ObsCount(obsLog) < MaxObs
    /\ state' = ObserveState(state, frame_index, <<player_id, foot>>, row, col, is_lava, k, m)
    /\ obsLog' = Logged(obsLog, state, frame_index, <<player_id, foot>>, row, col, is_lava, k, m)
    /\ UNCHANGED <<k, m, frame_index>>
    /\ UNCHANGED <<mapVars, trkVars, srvVars>>

\* ---------------------------------------------------- coordinate mappers
\* A mapped coordinate is the real number n / (d + e), with e = 1e-9 when eps
\* and e = 0 otherwise: the quotient world[i] / (world[2] + 1e-9) of integers
\* (mapping.py:30-32), or a float literal such as -1.0. Floors and comparisons
\* with integers below 1e9 are exact on this form; double rounding is far
\* below the 1e-9 that decides them.
Coord(n, d, eps) == [n |-> n, d |-> d, eps |-> eps]

\* What stands for a magnitude of about 1e9 or more (a division by 1e-9 alone).
Huge == 1000000000

Sign(n) == IF n > 0 THEN 1 ELSE IF n < 0 THEN -1 ELSE 0

\* np.floor of a mapped coordinate.
Floor(v) ==
    IF ~v.eps THEN v.n \div v.d
    ELSE IF v.d = 0 THEN Sign(v.n) * Huge
    ELSE IF v.d > 0
         THEN IF v.n > 0 /\ v.n % v.d = 0 THEN (v.n \div v.d) - 1 ELSE v.n \div v.d
         ELSE IF v.n > 0 /\ (-v.n) % (-v.d) = 0
              THEN ((-v.n) \div (-v.d)) - 1
              ELSE (-v.n) \div (-v.d)

\* np.clip(x, lo, hi) on an integer.
Clip(x, lo, hi) == IF x < lo THEN lo ELSE IF x > hi THEN hi ELSE x

\* v < c for an integer c (row_f < 0; row_f >= rows is its negation at rows).
Less(v, c) ==
    IF ~v.eps THEN v.n < c * v.d
    ELSE IF v.d >= 0 THEN v.n < c * v.d \/ (v.n = c * v.d /\ c > 0)
    ELSE v.n > c * v.d \/ (v.n = c * v.d /\ c < 0)

\* self.H.dot([x, y, 1.0])  (mapping.py:30-31, robust_mapping.py:46-47)
Dot(Hm, x, y) ==
    [i \in 1..3 |-> Hm[i][1] * x + Hm[i][2] * y + Hm[i][3]]

\* mapping.py:27-35 PixelToGridMapper.pixel_to_grid_float: <<row, col>>
pixel_to_grid_float(Hm, x, y) ==
    IF Hm = <<>> THEN <<Coord(-1, 1, FALSE), Coord(-1, 1, FALSE)>>
    ELSE LET world == Dot(Hm, x, y)
         IN  <<Coord(world[2], world[3], TRUE), Coord(world[1], world[3], TRUE)>>

\* Mutant: the flag is computed from the clamped cell.
pixel_to_grid_cell_OobFromCell(Hm, nrows, ncols, x, y) ==
    LET f == pixel_to_grid_float(Hm, x, y)
        row == Clip(Floor(f[1]), 0, nrows - 1)
        col == Clip(Floor(f[2]), 0, ncols - 1)
    IN  <<row, col, row < 0 \/ col < 0 \/ row >= nrows \/ col >= ncols>>

\* mapping.py:37-43 PixelToGridMapper.pixel_to_grid_cell: <<row, col, outside>>
pixel_to_grid_cell(Hm, nrows, ncols, x, y) ==
    LET f == pixel_to_grid_float(Hm, x, y)
    IN  <<Clip(Floor(f[1]), 0, nrows - 1),
          Clip(Floor(f[2]), 0, ncols - 1),
          Less(f[1], 0) \/ Less(f[2], 0) \/ ~Less(f[1], nrows) \/ ~Less(f[2], ncols)>>

\* np.clip(x, 0, hi) on a mapped coordinate (robust_mapping.py:52-53).
ClipCoord(v, hi) ==
    IF Less(v, 0) THEN Coord(0, 1, FALSE)
    ELSE IF Less(v, hi) THEN v
    ELSE Coord(hi, 1, FALSE)

\* robust_mapping.py:40-55 RobustPixelToGridMapper.pixel_to_grid_float
robust_pixel_to_grid_float(Hm, nrows, ncols, x, y) ==
    IF Hm = <<>> THEN <<Coord(-1, 1, FALSE), Coord(-1, 1, FALSE)>>
    ELSE LET world == Dot(Hm, x, y)
         IN  <<ClipCoord(Coord(world[2], world[3], TRUE), nrows),
               ClipCoord(Coord(world[1], world[3], TRUE), ncols)>>

\* Mutant: the cell is the floor of the coordinate, not clamped to the last cell.
robust_pixel_to_grid_cell_NoClip(Hm, nrows, ncols, x, y) ==
    LET f == robust_pixel_to_grid_float(Hm, nrows, ncols, x, y)
    IN  <<Floor(f[1]), Floor(f[2]),
          Less(f[1], 0) \/ Less(f[2], 0) \/ ~Less(f[1], nrows) \/ ~Less(f[2], ncols)>>

\* robust_mapping.py:57-69 RobustPixelToGridMapper.pixel_to_grid_cell
robust_pixel_to_grid_cell(Hm, nrows, ncols, x, y) ==
    LET f == robust_pixel_to_grid_float(Hm, nrows, ncols, x, y)
    IN  <<Clip(Floor(f[1]), 0, nrows - 1),
          Clip(Floor(f[2]), 0, ncols - 1),
          Less(f[1], 0) \/ Less(f[2], 0) \/ ~Less(f[1], nrows) \/ ~Less(f[2], ncols)>>

\* The transforms the mappers are run with.
Identity == <<<<1, 0, 0>>, <<0, 1, 0>>, <<0, 0, 1>>>>
\* 4 pixels per cell, origin at pixel (2, 1)
Scaled == <<<<1, 0, -2>>, <<0, 1, -1>>, <<0, 0, 4>>>>
\* a mirrored image: col = 7 - x
Mirrored == <<<<-1, 0, 7>>, <<0, 1, 0>>, <<0, 0, 1>>>>
\* a perspective row: the homogeneous component is x - 2 (zero, negative, positive)
Perspective == <<<<0, 2, 0>>, <<3, 0, 0>>, <<1, 0, -2>>>>
Transforms == {Identity, Scaled, Mirrored, Perspective}
Grids == {<<8, 8>>, <<2, 3>>}
PixelVals == {-3, 0, 1, 2, 5, 8, 10000}

\* mapping.py:37-43, called with pixel (x, y)
MapPixel(x, y) ==
    /\ mapped' = [mapper |-> "plain", x |-> x, y |-> y,
                  out |-> pixel_to_grid_cell(H, mapper_rows, mapper_cols, x, y)]
    /\ UNCHANGED <<H, mapper_rows, mapper_cols>>
    /\ UNCHANGED <<smVars, trkVars, srvVars>>

\* robust_mapping.py:57-69, called with pixel (x, y)
RobustMapPixel(x, y) ==
    /\ mapped' = [mapper |-> "robust", x |-> x, y |-> y,
                  out |-> robust_pixel_to_grid_cell(H, mapper_rows, mapper_cols, x, y)]
    /\ UNCHANGED <<H, mapper_rows, mapper_cols>>
    /\ UNCHANGED <<smVars, trkVars, srvVars>>

\* ------------------------------------------------------ MultiPersonTracker
\* A detection is [left |-> <<x, y>>, right |-> <<x, y>>], the two foot pixels.
\* tracker.py:110-117 _get_centroid, kept as twice the centroid (the sum of the
\* two pixels) so that it stays an integer.
Centroid2(det) ==
    <<det.left[1] + det.right[1], det.left[2] + det.right[2]>>

\* tracker.py:50 np.linalg.norm of the difference of two centroids, kept as
\* its square on the doubled centroids: (2 D)^2.
Dist2(c1, c2) ==
    (c1[1] - c2[1]) * (c1[1] - c2[1]) + (c1[2] - c2[2]) * (c1[2] - c2[2])

\* Mutant: no pair is too far apart to be matched.
TooFar_Never(d2) == FALSE

\* tracker.py:63 D[row, col] > self.max_distance, on (2 D)^2.
TooFar(d2) == d2 > (2 * MaxDistance) * (2 * MaxDistance)

\* The element of a one-element set. {F(x) : x \in {e}} evaluates e once and
\* F on its value: the way a local variable of the code is written here.
Only(S) == CHOOSE x \in S : TRUE

RECURSIVE SortedSeq(_)
SortedSeq(S) ==
    IF S = {} THEN <<>>
    ELSE LET x == CHOOSE y \in S : \A z \in S : y <= z
         IN  <<x>> \o SortedSeq(S \ {x})

\* list(self.objects.keys()): insertion order, which is ascending id, since
\* ids are inserted in increasing order and deletion keeps the order.
Keys(objs) == SortedSeq(DOMAIN objs)

\* The tracker as one value.
\* The tracker as one value, with what the running update call has done:
\* the pairs <<id, column>> it matched, and whether it raised.
Tracker(nid, objs, dis) ==
    [next_id |-> nid, objects |-> objs, disappeared |-> dis,
     matched |-> {}, raised |-> FALSE]

\* Mutant: the smallest id not in use is handed out again.
register_Reuse(T, det) ==
    LET person_id == CHOOSE i \in 0..T.next_id :
                         i \notin DOMAIN T.objects /\ \A j \in 0..(i - 1) : j \in DOMAIN T.objects
    IN  [T EXCEPT
            !.next_id = IF person_id = T.next_id THEN @ + 1 ELSE @,
            !.objects = [x \in DOMAIN T.objects \cup {person_id} |->
                            IF x = person_id
                            THEN [last_det |-> det, centroid |-> Centroid2(det)]
                            ELSE T.objects[x]],
            !.disappeared = [x \in DOMAIN T.disappeared \cup {person_id} |->
                                IF x = person_id THEN 0 ELSE T.disappeared[x]]]

\* tracker.py:93-103 _register
register(T, det) ==
    LET person_id == T.next_id
    IN  [T EXCEPT
            !.next_id = @ + 1,
            !.objects = [x \in DOMAIN T.objects \cup {person_id} |->
                            IF x = person_id
                            THEN [last_det |-> det, centroid |-> Centroid2(det)]
                            ELSE T.objects[x]],
            !.disappeared = [x \in DOMAIN T.disappeared \cup {person_id} |->
                                IF x = person_id THEN 0 ELSE T.disappeared[x]]]

\* tracker.py:105-108 _deregister
deregister(T, person_id) ==
    [T EXCEPT
        !.objects = [x \in DOMAIN T.objects \ {person_id} |-> T.objects[x]],
        !.disappeared = [x \in DOMAIN T.disappeared \ {person_id} |-> T.disappeared[x]]]

\* Mutant: the counter is raised and the track is kept whatever it reaches.
Age_NeverRemoves(T, person_id, maxd) ==
    [T EXCEPT !.disappeared[person_id] = @ + 1]

\* tracker.py:35-37, 82-84: one more missed frame, and removal beyond the limit.
Age(T, person_id, maxd) ==
    LET T1 == [T EXCEPT !.disappeared[person_id] = @ + 1]
    IN  IF T1.disappeared[person_id] > maxd THEN deregister(T1, person_id) ELSE T1

\* Mutant: the counters are raised and no track is removed.
AgeAll_NoRemoval(T, ids, i, maxd) ==
    [T EXCEPT !.disappeared = [id \in DOMAIN T.disappeared |-> T.disappeared[id] + 1]]

\* tracker.py:33-38: the zero-detection branch, over list(self.disappeared.keys()).
RECURSIVE AgeAll(_, _, _, _)
AgeAll(T, ids, i, maxd) ==
    IF i > Len(ids) THEN T
    ELSE Only({AgeAll(T1, ids, i + 1, maxd) : T1 \in {Age(T, ids[i], maxd)}})

\* tracker.py:42-43, 88-89: register detections dets[unused_cols[i]], in order.
RECURSIVE RegisterAll(_, _, _, _)
RegisterAll(T, dets, unused_cols, i) ==
    IF i > Len(unused_cols) THEN T
    ELSE Only({RegisterAll(T1, dets, unused_cols, i + 1) : T1 \in {register(T, dets[unused_cols[i]])}})

\* tracker.py:46-50: D[row][col], rows the tracks in key order.
DistMatrix(T, dets) ==
    LET ids == Keys(T.objects)
    IN  [row \in 1..Len(ids) |->
            [col \in 1..Len(dets) |->
                Dist2(T.objects[ids[row]].centroid, Centroid2(dets[col]))]]

\* D.min(axis=1)[row]
RowMin(D, row) ==
    CHOOSE d \in {D[row][c] : c \in DOMAIN D[row]} :
        \A c \in DOMAIN D[row] : d <= D[row][c]

\* Mutant: the farthest detection is taken, not the nearest.
ArgMin_Farthest(D, row) ==
    CHOOSE c \in DOMAIN D[row] :
        /\ \A c2 \in DOMAIN D[row] : D[row][c2] <= D[row][c]
        /\ \A c2 \in DOMAIN D[row] : D[row][c2] = D[row][c] => c <= c2

\* D.argmin(axis=1)[row]: the first column that holds the minimum.
ArgMin(D, row) ==
    CHOOSE c \in DOMAIN D[row] :
        /\ D[row][c] = RowMin(D, row)
        /\ \A c2 \in DOMAIN D[row] : D[row][c2] = RowMin(D, row) => c <= c2

\* The orderings of n rows, for every number of tracks there can be.
Perms ==
    [n \in 0..MaxIds |->
        {p \in [1..n -> 1..n] : \A i \in 1..n, j \in 1..n : p[i] = p[j] => i = j}]

\* tracker.py:53 D.min(axis=1).argsort(): every order of the rows that is
\* ascending in the row minimum. numpy's default sort is not stable, so rows
\* with equal minima may come in either order.
SortOrders(D) ==
    LET mins == [row \in 1..Len(D) |-> RowMin(D, row)]
    IN  {p \in Perms[Len(D)] :
            \A i \in 1..(Len(D) - 1) : mins[p[i]] <= mins[p[i + 1]]}

\* tracker.py:80-84: the loop over unused_rows (a set of small ints: ascending).
\* The key list is read again in every iteration, after earlier iterations may
\* have deregistered tracks: a row beyond its end raises IndexError.
RECURSIVE AgeRows(_, _, _, _)
AgeRows(T, unused_rows, i, maxd) ==
    IF i > Len(unused_rows) THEN T
    ELSE IF unused_rows[i] > Len(Keys(T.objects)) THEN [T EXCEPT !.raised = TRUE]
    ELSE Only({AgeRows(T1, unused_rows, i + 1, maxd) :
                  T1 \in {Age(T, Keys(T.objects)[unused_rows[i]], maxd)}})

\* Mutant: the unmatched tracks are aged whatever the number of detections.
AfterMatch_AgesToo(T, ids, dets, pairs, maxd) ==
    IF Len(ids) >= Len(dets)
    THEN AgeRows([T EXCEPT !.matched = {<<ids[q[1]], q[2]>> : q \in pairs}],
                 SortedSeq((1..Len(ids)) \ {q[1] : q \in pairs}), 1, maxd)
    ELSE RegisterAll(AgeRows([T EXCEPT !.matched = {<<ids[q[1]], q[2]>> : q \in pairs}],
                             SortedSeq((1..Len(ids)) \ {q[1] : q \in pairs}), 1, maxd),
                     dets, SortedSeq((1..Len(dets)) \ {q[2] : q \in pairs}), 1)

\* Mutant: the unmatched detections are registered whatever the number of tracks.
AfterMatch_RegistersToo(T, ids, dets, pairs, maxd) ==
    RegisterAll(IF Len(ids) >= Len(dets)
                THEN AgeRows([T EXCEPT !.matched = {<<ids[q[1]], q[2]>> : q \in pairs}],
                             SortedSeq((1..Len(ids)) \ {q[1] : q \in pairs}), 1, maxd)
                ELSE [T EXCEPT !.matched = {<<ids[q[1]], q[2]>> : q \in pairs}],
                dets, SortedSeq((1..Len(dets)) \ {q[2] : q \in pairs}), 1)

\* tracker.py:74-89: what follows the greedy loop; pairs is the set of
\* <<row, col>> it matched.
AfterMatch(T, ids, dets, pairs, maxd) ==
    IF Len(ids) >= Len(dets)
    THEN AgeRows([T EXCEPT !.matched = {<<ids[q[1]], q[2]>> : q \in pairs}],
                 SortedSeq((1..Len(ids)) \ {q[1] : q \in pairs}), 1, maxd)
    ELSE RegisterAll([T EXCEPT !.matched = {<<ids[q[1]], q[2]>> : q \in pairs}],
                     dets, SortedSeq((1..Len(dets)) \ {q[2] : q \in pairs}), 1)

\* tracker.py:59-72: the greedy loop over zip(rows, cols), then the rest.
RECURSIVE MatchLoop(_, _, _, _, _, _, _, _)
MatchLoop(T, ids, dets, D, order, i, pairs, maxd) ==
    IF i > Len(order) THEN AfterMatch(T, ids, dets, pairs, maxd)
    ELSE Only({
           IF \/ \E q \in pairs : q[1] = order[i] \/ q[2] = col
              \/ TooFar(D[order[i]][col])
           THEN MatchLoop(T, ids, dets, D, order, i + 1, pairs, maxd)
           ELSE Only({MatchLoop(T1, ids, dets, D, order, i + 1, pairs1, maxd) :
                         T1 \in {[T EXCEPT !.objects[ids[order[i]]] =
                                               [last_det |-> dets[col],
                                                centroid |-> Centroid2(dets[col])],
                                           !.disappeared[ids[order[i]]] = 0]},
                         pairs1 \in {pairs \cup {<<order[i], col>>}}})
           : col \in {ArgMin(D, order[i])}})

\* tracker.py:22-91 update, with the argsort order it drew.
update(T, dets, order, maxd) ==
    IF Len(dets) = 0 THEN AgeAll(T, Keys(T.disappeared), 1, maxd)
    ELSE IF DOMAIN T.objects = {} THEN RegisterAll(T, dets, [i \in 1..Len(dets) |-> i], 1)
    ELSE Only({MatchLoop(T, ids, dets, D, order, 1, {}, maxd) :
                  ids \in {Keys(T.objects)}, D \in {DistMatrix(T, dets)}})

\* The argsort orders update can draw for this input.
Orders(T, dets) ==
    IF Len(dets) = 0 \/ DOMAIN T.objects = {} THEN {<<>>}
    ELSE SortOrders(DistMatrix(T, dets))

\* The detections the tracker is fed: a person standing at x, feet 10 apart.
DetAt(x) == [left |-> <<x - 5, 100>>, right |-> <<x + 5, 100>>]
DetPool == {DetAt(-40), DetAt(0), DetAt(30), DetAt(200)}

\* Lists of up to MaxDets distinct detections of the pool, as a detector that
\* scans the image from left to right reports them.
DetLists ==
    {d \in UNION {[1..n -> DetPool] : n \in 0..MaxDets} :
        \A i \in DOMAIN d, j \in DOMAIN d : i < j => d[i].left[1] < d[j].left[1]}

\* tracker.py:22-91: what an update call with outcome T1 leaves in the tracker.
TrackerApply(dets, T1) ==
    /\ T1.next_id <= MaxIds
    /\ next_id' = T1.next_id
    /\ objects' = T1.objects
    /\ disappeared' = T1.disappeared
    /\ last' = [dets |-> dets,
                ids_before |-> DOMAIN objects,
                next_id_before |-> next_id,
                matched |-> T1.matched,
                removed |-> {<<i, objects[i].last_det>> :
                                i \in DOMAIN objects \ DOMAIN T1.objects},
                raised |-> T1.raised,
                \* the call before this one: had the same input, found
                \* no tracks, removed these tracks
                repeat |-> last # <<>> /\ last.dets = dets,
                prev_fresh |-> last # <<>> /\ last.ids_before = {},
                prev_removed |-> IF last = <<>> THEN {} ELSE last.removed,
                \* per track held after the call: the number of calls in a row, up
                \* to this one, that had no more detections than tracks and matched
                \* no detection to it
                streak |-> [id \in DOMAIN T1.objects |->
                               IF \/ id \notin DOMAIN objects
                                  \/ id \in {q[1] : q \in T1.matched}
                                  \/ Len(dets) > Cardinality(DOMAIN objects)
                               THEN 0
                               ELSE last.streak[id] + 1]]
    /\ UNCHANGED max_disappeared

\* tracker.py:22-91: one update call.
TrackerUpdate(dets) ==
    /\ \E order \in Orders(Tracker(next_id, objects, disappeared), dets) :
       \E T1 \in {update(Tracker(next_id, objects, disappeared), dets, order,
                          max_disappeared)} :
              TrackerApply(dets, T1)
    /\ UNCHANGED <<smVars, mapVars, srvVars>>

\* --------------------------------------------------------- RobustLavaServer
\* The values of a JSON message, as far as int() tells them apart
\* (robust_server.py:232): an integer, a float (kept in tenths), a string of
\* digits, another string, null.
JInt(n) == [type |-> "int", n |-> n]
JFloat(tenths) == [type |-> "float", n |-> tenths]
JDigits(n) == [type |-> "digits", n |-> n]
JText == [type |-> "text", n |-> 0]
JNull == [type |-> "null", n |-> 0]

\* An entry of a lava_tiles list: a list of values, or something that is no list
\* (a number, a string, an object).
JList(items) == [list |-> TRUE, items |-> items]
JOther == [list |-> FALSE, items |-> <<>>]
JPair(r, c) == JList(<<JInt(r), JInt(c)>>)

\* The clients that connect, and the lava_tiles lists they send.
ClientIds == {1}
TileLists == {<<>>, <<JPair(0, 0), JPair(0, 1), JPair(99, 99)>>}

\* The frames the camera delivers, as what the pose detector reports for them
\* (pose_tracker.py:9-18): nobody, one person on the grid, that person and one
\* far to its right.
Frames == {<<>>, <<DetAt(0)>>, <<DetAt(0), DetAt(200)>>}

\* The transform a calibration of the camera saves: 40 pixels per cell,
\* origin at pixel (-45, 100).
Camera == <<<<1, 0, 45>>, <<0, 1, -100>>, <<0, 0, 40>>>>

\* robust_server.py:147-165: one entry of person_feet_data.
FootData(Hm, nrows, ncols, px) ==
    Only({[pixel |-> px, grid |-> <<c[1], c[2]>>, oob |-> c[3]] :
             c \in {robust_pixel_to_grid_cell(Hm, nrows, ncols, px[1], px[2])}})

\* Mutant: only the tracks that the update call of this pass matched or
\* registered are listed.
detect_person_feet_SeenOnly(objs, Hm, nrows, ncols) ==
    LET seen == [id \in {x \in DOMAIN objs : disappeared'[x] = 0} |-> objs[id]]
    IN  [i \in 1..Cardinality(DOMAIN seen) |->
            Only({[person_id |-> pid,
                   left_foot |-> FootData(Hm, nrows, ncols, seen[pid].last_det.left),
                   right_foot |-> FootData(Hm, nrows, ncols, seen[pid].last_det.right)] :
                     pid \in {Keys(seen)[i]}})]

\* robust_server.py:128-171 _detect_person_feet, after self.tracker.update:
\* one entry per track, in the order of the tracker's dict.
detect_person_feet(objs, Hm, nrows, ncols) ==
    [i \in 1..Cardinality(DOMAIN objs) |->
        Only({[person_id |-> pid,
               left_foot |-> FootData(Hm, nrows, ncols, objs[pid].last_det.left),
               right_foot |-> FootData(Hm, nrows, ncols, objs[pid].last_det.right)] :
                 pid \in {Keys(objs)[i]}})]

\* The (person, foot) pairs in the order _check_lava_collisions visits them
\* (robust_server.py:178-182).
Limbs(persons) ==
    [j \in 1..(2 * Len(persons)) |->
        IF j % 2 = 1
        THEN [person_id |-> persons[(j + 1) \div 2].person_id, foot |-> "left",
              grid |-> persons[(j + 1) \div 2].left_foot.grid,
              oob |-> persons[(j + 1) \div 2].left_foot.oob]
        ELSE [person_id |-> persons[j \div 2].person_id, foot |-> "right",
              grid |-> persons[j \div 2].right_foot.grid,
              oob |-> persons[j \div 2].right_foot.oob]]

\* Mutant: the limbs of the first person are tested against the set, those of
\* the persons after it against a set that was emptied meanwhile.
IsLava_SetReplacedMidPass(limb, nrows, ncols, tiles) ==
    /\ 0 <= limb.grid[1] /\ limb.grid[1] < nrows
    /\ 0 <= limb.grid[2] /\ limb.grid[2] < ncols
    /\ limb.grid \in (IF limb.person_id = 0 THEN tiles ELSE {})

\* robust_server.py:185-186: in_bounds and is_lava of one limb.
IsLava(limb, nrows, ncols, tiles) ==
    /\ 0 <= limb.grid[1] /\ limb.grid[1] < nrows
    /\ 0 <= limb.grid[2] /\ limb.grid[2] < ncols
    /\ limb.grid \in tiles

\* The ages of last_collision_time the model tells apart: 0 up to one above the
\* cooldown, which stands for every larger age (time.time() - 0 at the start).
OldAge == CollisionCooldown + 1
Aged(age, dt) == IF age + dt > OldAge THEN OldAge ELSE age + dt

\* What _check_lava_collisions carries from limb to limb: the smoother's state,
\* the collision fields, current_time - self.last_collision_time (0 once an
\* event of this call has set last_collision_time), the events, and per limb
\* what was tested.
Collisions(st, detected, message, age) ==
    [state |-> st, collision_detected |-> detected, collision_message |-> message,
     age |-> age, events |-> <<>>, tests |-> <<>>]

\* Mutant: the cooldown is not consulted.
CheckLimb_NoCooldown(C, limb, fi, kk, mm, nrows, ncols, tiles, active) ==
    LET key == <<limb.person_id, limb.foot>>
        is_lava == IsLava(limb, nrows, ncols, tiles)
        s == KeyState(C.state, fi, key, limb.grid[1], limb.grid[2])
        triggered == ObserveReturn(s, fi, limb.grid[1], limb.grid[2], is_lava, kk)
        C1 == [C EXCEPT !.state = ObserveState(C.state, fi, key, limb.grid[1], limb.grid[2],
                                               is_lava, kk, mm),
                        !.tests = Append(@, [person_id |-> limb.person_id, foot |-> limb.foot,
                                             grid |-> limb.grid, oob |-> limb.oob,
                                             is_lava |-> is_lava, triggered |-> triggered])]
    IN  IF triggered /\ is_lava /\ active
        THEN [C1 EXCEPT !.collision_detected = TRUE,
                        !.collision_message = [person_id |-> limb.person_id, grid |-> limb.grid],
                        !.age = 0,
                        !.events = Append(@, [type |-> "event_on_lava",
                                              person_id |-> limb.person_id,
                                              foot |-> limb.foot,
                                              grid |-> limb.grid,
                                              consecutive_frames |-> kk])]
        ELSE C1

\* robust_server.py:183-207: one limb.
CheckLimb(C, limb, fi, kk, mm, nrows, ncols, tiles, active) ==
    LET key == <<limb.person_id, limb.foot>>
        is_lava == IsLava(limb, nrows, ncols, tiles)
        s == KeyState(C.state, fi, key, limb.grid[1], limb.grid[2])
        triggered == ObserveReturn(s, fi, limb.grid[1], limb.grid[2], is_lava, kk)
        event == triggered /\ is_lava /\ active /\ C.age > CollisionCooldown
        C1 == [C EXCEPT !.state = ObserveState(C.state, fi, key, limb.grid[1], limb.grid[2],
                                               is_lava, kk, mm),
                        !.tests = Append(@, [person_id |-> limb.person_id, foot |-> limb.foot,
                                             grid |-> limb.grid, oob |-> limb.oob,
                                             is_lava |-> is_lava, triggered |-> triggered])]
    IN  IF event
        THEN [C1 EXCEPT !.collision_detected = TRUE,
                        !.collision_message = [person_id |-> limb.person_id, grid |-> limb.grid],
                        !.age = 0,
                        !.events = Append(@, [type |-> "event_on_lava",
                                              person_id |-> limb.person_id,
                                              foot |-> limb.foot,
                                              grid |-> limb.grid,
                                              consecutive_frames |-> kk])]
        ELSE C1

\* robust_server.py:173-209 _check_lava_collisions over the limbs from i on.
RECURSIVE check_lava_collisions(_, _, _, _, _, _, _, _, _, _)
check_lava_collisions(C, limbs, i, fi, kk, mm, nrows, ncols, tiles, active) ==
    IF i > Len(limbs) THEN C
    ELSE check_lava_collisions(
             Only({CheckLimb(C, limbs[i], fi, kk, mm, nrows, ncols, tiles, active)}),
             limbs, i + 1, fi, kk, mm, nrows, ncols, tiles, active)

\* robust_server.py:246-256 broadcast and 258-262 _safe_send. B carries the
\* connected set, per coming call of broadcast the clients whose send raises,
\* and per call made what was handed over, who was connected, whose send
\* raised, who received it, who is left and whether it was mirrored to the
\* datagram socket.
Broadcasting(cl, fails) == [clients |-> cl, fails |-> fails, log |-> <<>>]

\* The clients whose send raises in the coming call (none once the list is
\* used up), and the list for the calls after it.
Failing(B) == IF B.fails = <<>> THEN {} ELSE Head(B.fails)
LaterFails(B) == IF B.fails = <<>> THEN <<>> ELSE Tail(B.fails)

\* Mutant: a failed send ends the gather, and the clients after the failing
\* one get nothing.
broadcast_StopAtFailure(B, payload) ==
    IF B.clients = {}
    THEN [B EXCEPT !.fails = LaterFails(B),
                   !.log = Append(@, [payload |-> payload, clients |-> {}, failed |-> {},
                                      to |-> {}, left |-> {}, udp |-> FALSE])]
    ELSE [clients |-> B.clients \ Failing(B),
          fails |-> LaterFails(B),
          log |-> Append(B.log, [payload |-> payload,
                                 clients |-> B.clients,
                                 failed |-> B.clients \cap Failing(B),
                                 to |-> {c \in B.clients : \A f \in Failing(B) : c < f},
                                 left |-> B.clients \ Failing(B),
                                 udp |-> udp_enabled])]

broadcast(B, payload) ==
    IF B.clients = {}
    THEN [B EXCEPT !.fails = LaterFails(B),
                   !.log = Append(@, [payload |-> payload, clients |-> {}, failed |-> {},
                                      to |-> {}, left |-> {}, udp |-> FALSE])]
    ELSE [clients |-> B.clients \ Failing(B),
          fails |-> LaterFails(B),
          log |-> Append(B.log, [payload |-> payload,
                                 clients |-> B.clients,
                                 failed |-> B.clients \cap Failing(B),
                                 to |-> B.clients \ Failing(B),
                                 left |-> B.clients \ Failing(B),
                                 udp |-> udp_enabled])]

\* robust_server.py:314-315: the events of the tick, one broadcast each.
RECURSIVE BroadcastAll(_, _, _)
BroadcastAll(B, events, i) ==
    IF i > Len(events) THEN B
    ELSE BroadcastAll(broadcast(B, events[i]), events, i + 1)

\* robust_server.py:302-311: the detection_frame of the tick.
DetectionFrame(fid, active, C, persons) ==
    [type |-> "detection_frame", frame_id |-> fid, game_active |-> active,
     collision_detected |-> C.collision_detected,
     collision_message |-> C.collision_message,
     persons |-> persons]

\* The cells random.randrange can draw in demo_tiles_num rounds
\* (robust_server.py:270-272).
DemoFills ==
    {S \in SUBSET ((0..(rows - 1)) \X (0..(cols - 1))) :
        Cardinality(S) <= demo_tiles_num /\ (demo_tiles_num > 0 => S # {})}

\* robust_server.py:264-273 _maybe_demo_tiles: what it may leave in lava_tiles
\* and last_demo_time. The interval has always elapsed since time 0.0; after a
\* fill it has or has not.
DemoOutcomes(cl, tiles, ldt) ==
    IF demo_enabled /\ cl # {} /\ tiles = {}
    THEN {<<S, "set">> : S \in DemoFills} \cup (IF ldt = "set" THEN {<<tiles, ldt>>} ELSE {})
    ELSE {<<tiles, ldt>>}

\* Mutant: a collision that is not reset with the space key ends the session.
EndOfTick_CollisionEndsGame(key, cl, active, detected, message) ==
    /\ running' = (key # "q")
    /\ game_active' = IF key = "space" /\ detected THEN TRUE ELSE (active /\ ~detected)
    /\ collision_detected' = IF key = "space" /\ detected THEN FALSE ELSE detected
    /\ collision_message' = IF key = "space" /\ detected THEN <<>> ELSE message
    /\ \E demo \in IF key = "q" THEN {<<lava_tiles, last_demo_time>>}
                   ELSE DemoOutcomes(cl, lava_tiles, last_demo_time) :
          /\ lava_tiles' = demo[1]
          /\ last_demo_time' = demo[2]

\* robust_server.py:365-375: the key read by cv2.waitKey, then _maybe_demo_tiles
\* unless 'q' left the loop. The arguments are the values the tick has reached.
EndOfTick(key, cl, active, detected, message) ==
    /\ running' = (key # "q")
    /\ game_active' = IF key = "space" /\ detected THEN TRUE ELSE active
    /\ collision_detected' = IF key = "space" /\ detected THEN FALSE ELSE detected
    /\ collision_message' = IF key = "space" /\ detected THEN <<>> ELSE message
    /\ \E demo \in IF key = "q" THEN {<<lava_tiles, last_demo_time>>}
                   ELSE DemoOutcomes(cl, lava_tiles, last_demo_time) :
          /\ lava_tiles' = demo[1]
          /\ last_demo_time' = demo[2]

Keys3 == {"none", "space", "q"}

\* The seconds, capped as collision_age is, between the last event that was
\* queued and a pass that starts dt seconds after the pass before: counted from
\* the events of the passes, not from last_collision_time.
SinceEvent(dt) ==
    IF tick = <<>> THEN OldAge
    ELSE Aged(IF tick.events # <<>> THEN 0 ELSE tick.gap, dt)

\* robust_server.py:283-315: one pass of the loop from cap.read to the broadcasts
\* (a failed read changes nothing). With a client connected the broadcasts
\* await, and client handlers may run before the loop goes on (TickEnd);
\* without one, nothing awaits and the pass runs to its end. An IndexError of
\* the tracker leaves the loop.
TickFrame(dets, dt, fails, key) ==
    /\ running /\ pc = "loop"
    /\ frame_id' = frame_id + 1
    /\ frame_index' = frame_index + 1
    /\ UNCHANGED <<k, m, obsLog, mapVars, rows, cols, demo_enabled, demo_tiles_num, udp_enabled>>
    /\ \E order \in Orders(Tracker(next_id, objects, disappeared), dets) :
       \E T1 \in {update(Tracker(next_id, objects, disappeared), dets, order,
                          max_disappeared)} :
          /\ TrackerApply(dets, T1)
          /\ IF T1.raised
             THEN /\ running' = FALSE
                  /\ pc' = "loop"
                  /\ tick' = [raised |-> TRUE, persons |-> <<>>, tests |-> <<>>,
                              events |-> <<>>, active |-> game_active,
                              age |-> Aged(collision_age, dt), gap |-> SinceEvent(dt)]
                  /\ broadcasts' = <<>>
                  /\ UNCHANGED <<state, lava_tiles, game_active, collision_detected,
                                 collision_message, collision_age, last_demo_time,
                                 clients>>
             ELSE \E persons \in {detect_person_feet(T1.objects, H, mapper_rows, mapper_cols)} :
                  \E C \in {check_lava_collisions(
                                Collisions(state, collision_detected, collision_message,
                                           Aged(collision_age, dt)),
                                Limbs(persons), 1, frame_index + 1, k, m, rows, cols,
                                lava_tiles, game_active)} :
                  \E B \in {BroadcastAll(
                                broadcast(Broadcasting(clients, fails),
                                          DetectionFrame(frame_id + 1, game_active, C, persons)),
                                C.events, 1)} :
                     /\ state' = C.state
                     /\ collision_age' = C.age
                     /\ clients' = B.clients
                     /\ broadcasts' = B.log
                     /\ tick' = [raised |-> FALSE, persons |-> persons, tests |-> C.tests,
                                 events |-> C.events, active |-> game_active,
                                 age |-> Aged(collision_age, dt), gap |-> SinceEvent(dt)]
                     /\ IF clients = {}
                        THEN /\ EndOfTick(key, B.clients, game_active, C.collision_detected,
                                          C.collision_message)
                             /\ pc' = "loop"
                        ELSE /\ pc' = "sent"
                             /\ game_active' = game_active
                             /\ collision_detected' = C.collision_detected
                             /\ collision_message' = C.collision_message
                             /\ UNCHANGED <<lava_tiles, last_demo_time, running>>

\* robust_server.py:283-296, 128-133: a pass of the loop in which
\* self.pose.process raises. Nothing catches the exception in
\* _detect_person_feet or in the loop: the tracker is not called, nothing is
\* broadcast and the loop is left.
TickDetectorRaises ==
    /\ running /\ pc = "loop"
    /\ frame_id' = frame_id + 1
    /\ frame_index' = frame_index + 1
    /\ running' = FALSE
    /\ broadcasts' = <<>>
    /\ tick' = [raised |-> TRUE, persons |-> <<>>, tests |-> <<>>, events |-> <<>>,
                active |-> game_active, age |-> collision_age, gap |-> SinceEvent(0)]
    /\ UNCHANGED <<k, m, state, obsLog, mapVars, trkVars>>
    /\ UNCHANGED <<rows, cols, lava_tiles, game_active, collision_detected, collision_message,
                   collision_age, clients, demo_enabled, demo_tiles_num, last_demo_time,
                   udp_enabled, pc>>

\* robust_server.py:317-376: the rest of the pass, after the broadcasts awaited.
TickEnd(key) ==
    /\ running /\ pc = "sent"
    /\ EndOfTick(key, clients, game_active, collision_detected, collision_message)
    /\ pc' = "loop"
    /\ UNCHANGED <<smVars, mapVars, trkVars>>
    /\ UNCHANGED <<rows, cols, frame_id, collision_age, clients, demo_enabled,
                   demo_tiles_num, udp_enabled, broadcasts, tick>>

\* The inputs of a pass of the loop: the seconds since the pass before (which
\* matter while last_collision_time is younger than the cooldown), per call
\* of broadcast the clients whose send raises (a pass makes at most two calls:
\* the events of one pass share current_time), and the key pressed.
Elapses == IF collision_age > CollisionCooldown THEN {0} ELSE 0..OldAge
SendFailures ==
    UNION {{<<f1, f2>> : f2 \in SUBSET (clients \ f1)} : f1 \in SUBSET clients}
KeysRead == IF clients = {} THEN Keys3 ELSE {"none"}

\* One pass of the loop on a frame of Frames, right after the pass before or
\* long after it, every send succeeding.
Tick ==
    /\ frame_id < MaxTicks
    /\ \E dets \in Frames, dt \in Elapses \cap {0, OldAge}, key \in KeysRead :
          TickFrame(dets, dt, <<{}, {}>>, key)

\* robust_server.py:211-213: a client connects.
Connect(c) ==
    /\ running /\ c \notin clients
    /\ clients' = clients \cup {c}
    /\ UNCHANGED <<smVars, mapVars, trkVars>>
    /\ UNCHANGED <<rows, cols, lava_tiles, frame_id, game_active, collision_detected,
                   collision_message, collision_age, demo_enabled, demo_tiles_num,
                   last_demo_time, udp_enabled, running, pc, broadcasts, tick>>

\* robust_server.py:222-224: the connection of a client ends.
Disconnect(c) ==
    /\ running /\ c \in clients
    /\ clients' = clients \ {c}
    /\ UNCHANGED <<smVars, mapVars, trkVars>>
    /\ UNCHANGED <<rows, cols, lava_tiles, frame_id, game_active, collision_detected,
                   collision_message, collision_age, demo_enabled, demo_tiles_num,
                   last_demo_time, udp_enabled, running, pc, broadcasts, tick>>

\* Python's int(v) on a value of a message: the integer, or an exception
\* (ValueError for a string that is no number, TypeError for null).
IntOf(v) ==
    IF v.type = "int" \/ v.type = "digits" THEN [ok |-> TRUE, n |-> v.n]
    ELSE IF v.type = "float"
         THEN [ok |-> TRUE, n |-> IF v.n >= 0 THEN v.n \div 10 ELSE -((-v.n) \div 10)]
         ELSE [ok |-> FALSE, n |-> 0]

\* robust_server.py:231: the entries the loop converts.
IsPair(t) == t.list /\ Len(t.items) = 2

\* robust_server.py:232: int(t[0]), int(t[1]) raises on some entry.
TilesRaise(incoming) ==
    \E j \in DOMAIN incoming :
        /\ IsPair(incoming[j])
        /\ ~(IntOf(incoming[j].items[1]).ok /\ IntOf(incoming[j].items[2]).ok)

\* Mutant: the range test is left out.
NewTiles_NoRangeTest(incoming, nrows, ncols) ==
    {<<IntOf(incoming[j].items[1]).n, IntOf(incoming[j].items[2]).n>> :
        j \in {i \in DOMAIN incoming : IsPair(incoming[i])}}

\* Mutant: the pairs are added to the set that is there.
NewTiles_Adds(incoming, nrows, ncols) ==
    lava_tiles \cup
    {<<IntOf(incoming[j].items[1]).n, IntOf(incoming[j].items[2]).n>> :
        j \in {i \in DOMAIN incoming :
                  /\ IsPair(incoming[i])
                  /\ 0 <= IntOf(incoming[i].items[1]).n /\ IntOf(incoming[i].items[1]).n < nrows
                  /\ 0 <= IntOf(incoming[i].items[2]).n /\ IntOf(incoming[i].items[2]).n < ncols}}

\* robust_server.py:228-235: new_tiles, when no entry raises.
NewTiles(incoming, nrows, ncols) ==
    {<<IntOf(incoming[j].items[1]).n, IntOf(incoming[j].items[2]).n>> :
        j \in {i \in DOMAIN incoming :
                  /\ IsPair(incoming[i])
                  /\ 0 <= IntOf(incoming[i].items[1]).n /\ IntOf(incoming[i].items[1]).n < nrows
                  /\ 0 <= IntOf(incoming[i].items[2]).n /\ IntOf(incoming[i].items[2]).n < ncols}}

\* robust_server.py:216-224, 226-236: a connected client sends tile_update. An
\* exception of int() leaves _handle_message and the handler's loop: the set
\* is not replaced and the handler's finally discards the client.
TileUpdate(c, incoming) ==
    /\ running /\ c \in clients
    /\ IF TilesRaise(incoming)
       THEN /\ clients' = clients \ {c}
            /\ UNCHANGED lava_tiles
       ELSE /\ lava_tiles' = NewTiles(incoming, rows, cols)
            /\ UNCHANGED clients
    /\ UNCHANGED <<smVars, mapVars, trkVars>>
    /\ UNCHANGED <<rows, cols, frame_id, game_active, collision_detected,
                   collision_message, collision_age, demo_enabled,
                   demo_tiles_num, last_demo_time, udp_enabled, running, pc, broadcasts, tick>>

\* What else a client sends: text that is no JSON, an object with a type the
\* server does not know, an object without a type, JSON that is no object.
OtherMessages == {"unparsable", "unknown_type", "no_type", "not_object"}

\* robust_server.py:216-221, 243-244: json.loads raises and the loop goes on;
\* an object of another type is logged; on anything but an object data.get
\* raises AttributeError, which leaves the loop, and the finally discards the
\* client.
OtherMessage(c, msg) ==
    /\ running /\ c \in clients
    /\ clients' = IF msg = "not_object" THEN clients \ {c} ELSE clients
    /\ UNCHANGED <<smVars, mapVars, trkVars>>
    /\ UNCHANGED <<rows, cols, lava_tiles, frame_id, game_active, collision_detected,
                   collision_message, collision_age, demo_enabled, demo_tiles_num,
                   last_demo_time, udp_enabled, running, pc, broadcasts, tick>>

\* Mutant: the flag and the message of the last collision are kept.
RestartGame_KeepsCollision(c) ==
    /\ running /\ c \in clients
    /\ game_active' = TRUE
    /\ UNCHANGED <<smVars, mapVars, trkVars>>
    /\ UNCHANGED <<rows, cols, lava_tiles, frame_id, collision_detected, collision_message,
                   collision_age, clients, demo_enabled, demo_tiles_num, last_demo_time,
                   udp_enabled, running, pc, broadcasts, tick>>

\* Mutant: the debounce states and the time of the last event are reset too.
RestartGame_NewRound(c) ==
    /\ running /\ c \in clients
    /\ game_active' = TRUE
    /\ collision_detected' = FALSE
    /\ collision_message' = <<>>
    /\ state' = <<>>
    /\ collision_age' = OldAge
    /\ UNCHANGED <<k, m, frame_index, obsLog, mapVars, trkVars>>
    /\ UNCHANGED <<rows, cols, lava_tiles, frame_id, clients,
                   demo_enabled, demo_tiles_num, last_demo_time, udp_enabled, running, pc,
                   broadcasts, tick>>

\* robust_server.py:237-242: a connected client sends restart_game.
RestartGame(c) ==
    /\ running /\ c \in clients
    /\ game_active' = TRUE
    /\ collision_detected' = FALSE
    /\ collision_message' = <<>>
    /\ UNCHANGED <<smVars, mapVars, trkVars>>
    /\ UNCHANGED <<rows, cols, lava_tiles, frame_id, collision_age, clients,
                   demo_enabled, demo_tiles_num, last_demo_time, udp_enabled, running, pc,
                   broadcasts, tick>>

\* ------------------------------------------------------- specifications
\* smoothing.py:5-23 with the thresholds drawn from kset and mset.
SmootherInit(kset, mset) ==
    /\ k \in kset
    /\ m \in mset
    /\ state = <<>>
    /\ frame_index = 0
    /\ obsLog = [key \in PlayerIds \X Feet |-> <<>>]

\* mapping.py:9-22, robust_mapping.py:14-31: the transform and the grid extent
\* as loaded from homography.npy and grid_config.json.
MapperInit(hset, grids) ==
    /\ H \in hset
    /\ \E g \in grids : mapper_rows = g[1] /\ mapper_cols = g[2]
    /\ mapped = <<>>

\* tracker.py:8-20 with max_disappeared drawn from mdset.
TrackerInit(mdset) ==
    /\ next_id = 0
    /\ objects = <<>>
    /\ disappeared = <<>>
    /\ max_disappeared \in mdset
    /\ last = <<>>

\* robust_server.py:30-68 with the grid drawn from grids, demo_enabled from
\* demos, udp_enabled from udps and tiles_per_interval from nums: the fields as
\* the constructor leaves them.
ServerFieldsOf(grids, demos, udps, nums) ==
    /\ \E g \in grids : rows = g[1] /\ cols = g[2]
    /\ lava_tiles = {}
    /\ frame_id = 0
    /\ game_active = TRUE
    /\ collision_detected = FALSE
    /\ collision_message = <<>>
    /\ collision_age = OldAge
    /\ clients = {}
    /\ demo_enabled \in demos
    /\ demo_tiles_num \in nums
    /\ last_demo_time = "never"
    /\ udp_enabled \in udps
    /\ broadcasts = <<>>
    /\ tick = <<>>
    /\ hist = <<>>

\* The same with tiles_per_interval = MaxDemoTiles.
ServerFields(grids, demos, udps) ==
    ServerFieldsOf(grids, demos, udps, {MaxDemoTiles})

\* robust_server.py:30-68, 275-283: the server constructed, listening and at
\* the top of its loop.
ServerInit(grids, demos, udps) ==
    /\ ServerFields(grids, demos, udps)
    /\ running = TRUE
    /\ pc = "loop"

\* The server is not run: its fields stay as constructed.
ServerIdle == ServerInit({<<DefaultRows, DefaultCols>>}, {TRUE}, {FALSE})

InitSmoother ==
    /\ SmootherInit(0..MaxK, 0..MaxM)
    /\ MapperInit({<<>>}, {<<DefaultRows, DefaultCols>>})
    /\ TrackerInit({MaxGone})
    /\ ServerIdle

NextSmoother ==
    \/ next_frame
    \/ \E player_id \in PlayerIds, foot \in Feet, cell \in ObsCells, is_lava \in BOOLEAN :
          observe(player_id, foot, cell[1], cell[2], is_lava)

SpecSmoother == InitSmoother /\ [][NextSmoother]_vars

\* The two mappers alone, over every transform, grid and pixel of the sets above.
InitMapper ==
    /\ SmootherInit({DefaultK}, {DefaultM})
    /\ MapperInit(Transforms \cup {<<>>}, Grids)
    /\ TrackerInit({MaxGone})
    /\ ServerIdle

NextMapper ==
    \/ \E x \in PixelVals, y \in PixelVals : MapPixel(x, y)
    \/ \E x \in PixelVals, y \in PixelVals : RobustMapPixel(x, y)

SpecMapper == InitMapper /\ [][NextMapper]_vars

\* The tracker alone, fed every list of distinct detections of the pool.
InitTracker ==
    /\ SmootherInit({DefaultK}, {DefaultM})
    /\ MapperInit({<<>>}, {<<DefaultRows, DefaultCols>>})
    /\ TrackerInit({MaxGone})
    /\ ServerIdle

NextTracker ==
    \E dets \in DetLists : TrackerUpdate(dets)

SpecTracker == InitTracker /\ [][NextTracker]_vars

\* The server: the grid of config.yaml; either a calibration was saved, and the
\* mapper has its transform and the same grid, or none was, and the mapper has
\* no transform and its default grid.
ServerGrids == {<<2, 2>>}

InitServer ==
    /\ SmootherInit({1, 2}, {DefaultM})
    /\ TrackerInit({MaxGone})
    /\ ServerInit(ServerGrids, BOOLEAN, {TRUE})
    /\ \/ MapperInit({Camera}, {<<rows, cols>>})
       \/ MapperInit({<<>>}, {<<DefaultRows, DefaultCols>>})

\* The message a handler is about to take, as SpecCommands records it.
Message(type, c, body, raised) ==
    [type |-> type, client |-> c, body |-> body, raised |-> raised,
     lava_tiles |-> lava_tiles, game_active |-> game_active,
     collision_detected |-> collision_detected, collision_message |-> collision_message]

\* Here the messages are not recorded.
NextServer ==
    \/ Tick /\ hist' = <<>>
    \/ (\E key \in Keys3 : TickEnd(key)) /\ hist' = <<>>
    \/ (\E c \in ClientIds : Connect(c)) /\ hist' = <<>>
    \/ (\E c \in ClientIds : Disconnect(c)) /\ hist' = <<>>
    \/ (\E c \in ClientIds, incoming \in TileLists : TileUpdate(c, incoming)) /\ hist' = <<>>
    \/ (\E c \in ClientIds : RestartGame(c)) /\ hist' = <<>>
    \/ (\E c \in ClientIds, msg \in OtherMessages : OtherMessage(c, msg)) /\ hist' = <<>>

SpecServer == InitServer /\ [][NextServer]_vars

\* The server with the messages of its clients recorded: lists of well-formed
\* pairs (demo_client.py:11-12 sends the first), and lists with entries that
\* are no list or a list of another length, with a pair of a string that is
\* no number and null, with pairs of floats and of strings of digits.
CommandLists ==
    {<<JPair(0, 0), JPair(1, 1), JPair(99, 99)>>,
     <<>>,
     <<JPair(1, 0), JOther, JList(<<JInt(0)>>), JList(<<JInt(0), JInt(1), JInt(1)>>)>>,
     <<JPair(0, 1), JList(<<JText, JNull>>)>>,
     <<JList(<<JFloat(5), JFloat(19)>>), JList(<<JDigits(1), JDigits(0)>>)>>}

\* The grid of config.yaml as the repository ships it, without a calibration,
\* or a 2x2 grid with one.
InitCommands ==
    /\ SmootherInit({1}, {DefaultM})
    /\ TrackerInit({MaxGone})
    /\ \/ /\ ServerInit({<<2, 2>>}, {FALSE}, {TRUE})
          /\ MapperInit({Camera}, {<<rows, cols>>})
       \/ /\ ServerInit({<<DefaultRows, DefaultCols>>}, {FALSE}, {TRUE})
          /\ MapperInit({<<>>}, {<<DefaultRows, DefaultCols>>})

\* A pass of the loop forgets the message, but remembers that it ran after a
\* restart_game.
AfterMessage ==
    IF hist # <<>> /\ hist.type = "restart_game"
    THEN [type |-> "frame_after_restart", collision_detected |-> hist.collision_detected]
    ELSE <<>>

\* One pass of the loop on no person or one, every send succeeding.
CommandFrames == {<<>>, <<DetAt(0)>>}

CommandTick ==
    /\ frame_id < MaxTicks
    /\ \E dets \in CommandFrames, dt \in Elapses, key \in KeysRead :
          TickFrame(dets, dt, <<{}, {}>>, key)

NextCommands ==
    \/ CommandTick /\ hist' = AfterMessage
    \/ (\E key \in Keys3 : TickEnd(key)) /\ hist' = <<>>
    \/ (\E c \in ClientIds : Connect(c)) /\ hist' = <<>>
    \/ (\E c \in ClientIds : Disconnect(c)) /\ hist' = <<>>
    \/ \E c \in ClientIds, incoming \in CommandLists :
          /\ TileUpdate(c, incoming)
          /\ hist' = Message("tile_update", c, incoming, TilesRaise(incoming))
    \/ \E c \in ClientIds :
          /\ RestartGame(c)
          /\ hist' = Message("restart_game", c, <<>>, FALSE)
    \/ \E c \in ClientIds, msg \in OtherMessages :
          /\ OtherMessage(c, msg)
          /\ hist' = Message(msg, c, <<>>, msg = "not_object")

SpecCommands == InitCommands /\ [][NextCommands]_vars

\* The loop with two clients whose sends may fail, two persons who come and
\* go, and passes at every distance in time. The tracker drops a track after
\* MaxGone missed frames, or at the first.
LoopClients == {1, 2}
LoopFrames == {<<>>, <<DetAt(0), DetAt(200)>>, <<DetAt(100)>>}
LoopTiles == <<JPair(0, 0), JPair(0, 1)>>

InitLoop ==
    /\ SmootherInit({1}, {DefaultM})
    /\ TrackerInit({0, MaxGone})
    /\ ServerInit({<<2, 2>>}, {FALSE}, {TRUE})
    /\ MapperInit({Camera}, {<<rows, cols>>})

LoopTick ==
    /\ frame_id < MaxTicks
    /\ \E dets \in LoopFrames, dt \in Elapses, fails \in SendFailures :
          TickFrame(dets, dt, fails, "none")

NextLoop ==
    \/ LoopTick /\ hist' = <<>>
    \/ TickEnd("none") /\ hist' = <<>>
    \/ (\E c \in LoopClients : Connect(c)) /\ hist' = <<>>
    \/ (\E c \in LoopClients : TileUpdate(c, LoopTiles)) /\ hist' = <<>>

SpecLoop == InitLoop /\ [][NextLoop]_vars

\* The loop and a client that replaces the hazard set between its passes and
\* within them (where the broadcasts await), with demo fills or none. Of a
\* pass the lava_tiles it found are recorded.
InitHazard ==
    /\ SmootherInit({1}, {DefaultM})
    /\ TrackerInit({MaxGone})
    /\ ServerInit({<<2, 2>>}, BOOLEAN, {TRUE})
    /\ MapperInit({Camera}, {<<rows, cols>>})

NextHazard ==
    \/ Tick /\ hist' = [lava_tiles |-> lava_tiles]
    \/ TickEnd("none") /\ UNCHANGED hist
    \/ (\E c \in ClientIds : Connect(c)) /\ UNCHANGED hist
    \/ (\E c \in ClientIds, incoming \in TileLists : TileUpdate(c, incoming))
          /\ UNCHANGED hist

SpecHazard == InitHazard /\ [][NextHazard]_vars

\* The demo fill with more draws than one: a client, tile lists from it, and
\* the passes of the loop with their demo fills.
InitDemo ==
    /\ SmootherInit({1}, {DefaultM})
    /\ TrackerInit({MaxGone})
    /\ ServerFieldsOf({<<2, 2>>}, {TRUE}, {FALSE}, {0, MaxDemoTiles + 1})
    /\ MapperInit({Camera}, {<<rows, cols>>})
    /\ running = TRUE
    /\ pc = "loop"

NextDemo ==
    \/ Tick /\ UNCHANGED hist
    \/ TickEnd("none") /\ UNCHANGED hist
    \/ (\E c \in ClientIds : Connect(c)) /\ UNCHANGED hist
    \/ (\E c \in ClientIds, incoming \in TileLists : TileUpdate(c, incoming))
          /\ UNCHANGED hist

SpecDemo == InitDemo /\ [][NextDemo]_vars

\* run() from its first line to its last, with the calls it makes on the
\* listener, the camera and the detector recorded. The constructor has opened
\* the camera (robust_server.py:63) and made the detector (line 68).
InitRun ==
    /\ SmootherInit({1}, {DefaultM})
    /\ TrackerInit({0, MaxGone})
    /\ ServerFields({<<2, 2>>}, {FALSE}, {TRUE})
    /\ MapperInit({Camera}, {<<rows, cols>>})
    /\ running = FALSE
    /\ pc = "start"

\* robust_server.py:276: websockets.serve returns the listener, or raises (the
\* port is taken): the call stands before the try, so the exception leaves
\* run() and, through asyncio.run, main() (lines 384-388).
Serve(ok) ==
    /\ pc = "start"
    /\ running' = ok
    /\ pc' = IF ok THEN "loop" ELSE "done"
    /\ hist' = Append(hist, IF ok THEN "serve" ELSE "serve_raises")
    /\ UNCHANGED <<smVars, mapVars, trkVars>>
    /\ UNCHANGED <<rows, cols, lava_tiles, frame_id, game_active, collision_detected,
                   collision_message, collision_age, clients, demo_enabled, demo_tiles_num,
                   last_demo_time, udp_enabled, broadcasts, tick>>

\* How the finally of run() can go, and the calls it makes then
\* (robust_server.py:377-382): each call is made only if those before it
\* returned.
Closings == {"ok", "close_raises", "wait_closed_raises"}
FinallyCalls(closing) ==
    IF closing = "close_raises" THEN <<"close_raises">>
    ELSE IF closing = "wait_closed_raises" THEN <<"close", "wait_closed_raises">>
    ELSE <<"close", "wait_closed", "cap.release", "pose.close">>

\* robust_server.py:377-382: the loop was left, by 'q' or by an exception, and
\* the finally runs.
Finally(closing) ==
    /\ ~running /\ pc = "loop"
    /\ pc' = "done"
    /\ hist' = hist \o FinallyCalls(closing)
    /\ UNCHANGED <<smVars, mapVars, trkVars>>
    /\ UNCHANGED <<rows, cols, lava_tiles, frame_id, game_active, collision_detected,
                   collision_message, collision_age, clients, demo_enabled, demo_tiles_num,
                   last_demo_time, udp_enabled, running, broadcasts, tick>>

RunTick ==
    /\ frame_id < MaxTicks
    /\ \E dets \in LoopFrames, key \in KeysRead :
          TickFrame(dets, 0, <<{}, {}>>, key)

NextRun ==
    \/ \E ok \in BOOLEAN : Serve(ok)
    \/ RunTick /\ UNCHANGED hist
    \/ /\ frame_id < MaxTicks
       /\ TickDetectorRaises
       /\ hist' = Append(hist, "process_raises")
    \/ (\E key \in Keys3 : TickEnd(key)) /\ UNCHANGED hist
    \/ (\E c \in ClientIds : Connect(c)) /\ UNCHANGED hist
    \/ \E closing \in Closings : Finally(closing)

SpecRun == InitRun /\ [][NextRun]_vars

\* The loop before one person, with the identity as transform, a 2x2 grid, the
\* default thresholds and a client that sets the hazard (0, 0). The person is
\* not seen, or stands with the left foot at pixel (0, 0), cell (0, 0), or at
\* pixel (2, 0), cell (0, 1); the right foot is at pixel (2, 2), cell (1, 1).
\* Every pass is recorded.
MaxScenarioTicks == 3
ScenarioFrames ==
    {<<>>,
     <<[left |-> <<0, 0>>, right |-> <<2, 2>>]>>,
     <<[left |-> <<2, 0>>, right |-> <<2, 2>>]>>}
ScenarioTiles == <<JPair(0, 0)>>

InitScenario ==
    /\ SmootherInit({DefaultK}, {DefaultM})
    /\ TrackerInit({MaxGone})
    /\ ServerInit({<<2, 2>>}, {FALSE}, {TRUE})
    /\ MapperInit({Identity}, {<<rows, cols>>})

ScenarioTick ==
    /\ frame_id < MaxScenarioTicks
    /\ \E dets \in ScenarioFrames, dt \in Elapses :
          TickFrame(dets, dt, <<{}, {}>>, "none")

NextScenario ==
    \/ /\ ScenarioTick
       /\ hist' = Append(hist, [tests |-> tick'.tests, events |-> tick'.events])
    \/ TickEnd("none") /\ UNCHANGED hist
    \/ Connect(1) /\ UNCHANGED hist
    \/ TileUpdate(1, ScenarioTiles) /\ UNCHANGED hist

SpecScenario == InitScenario /\ [][NextScenario]_vars

\* The loop before one person whose feet step on and off the hazard (0, 0)
\* one by one or together, with K = 1, passes at every distance in time and
\* every pass recorded: a foot at pixel (0, 0) is on the hazard, one at pixel
\* (2, 2) is not.
CooldownFrames ==
    {<<>>,
     <<[left |-> <<0, 0>>, right |-> <<0, 0>>]>>,
     <<[left |-> <<0, 0>>, right |-> <<2, 2>>]>>,
     <<[left |-> <<2, 2>>, right |-> <<0, 0>>]>>}

InitCooldown ==
    /\ SmootherInit({1}, {DefaultM})
    /\ TrackerInit({MaxGone})
    /\ ServerInit({<<2, 2>>}, {FALSE}, {TRUE})
    /\ MapperInit({Identity}, {<<rows, cols>>})

CooldownTick ==
    /\ frame_id < MaxScenarioTicks
    /\ \E dets \in CooldownFrames, dt \in Elapses :
          TickFrame(dets, dt, <<{}, {}>>, "none")

NextCooldown ==
    \/ /\ CooldownTick
       /\ hist' = Append(hist, [tests |-> tick'.tests, events |-> tick'.events])
    \/ TickEnd("none") /\ UNCHANGED hist
    \/ Connect(1) /\ UNCHANGED hist
    \/ TileUpdate(1, ScenarioTiles) /\ UNCHANGED hist

SpecCooldown == InitCooldown /\ [][NextCooldown]_vars

\* ------------------------------------------------- claims: LavaSmoother
\* Length of the run of consecutive observations with is_lava = v that ends at
\* entry i of the history h.
RECURSIVE RunAt(_, _, _)
RunAt(h, i, v) ==
    IF i = 0 \/ h[i].is_lava # v THEN 0 ELSE 1 + RunAt(h, i - 1, v)

IsLavaSeq(h) == [i \in 1..Len(h) |-> h[i].is_lava]
RetSeq(h) == [i \in 1..Len(h) |-> h[i].ret]

\* C1: with K >= 1, observe returns true exactly on the call made on an Idle
\* key whose run of consecutive hazard observations reaches K with that call
\* (lava_run = K then), and false on every other call; K = 3 and five hazard
\* observations in a row give [false, false, true, false, false].
C1_TriggerExactlyAtK ==
    k >= 1 =>
        \A key \in DOMAIN obsLog :
            LET h == obsLog[key] IN
            /\ \A i \in 1..Len(h) :
                  /\ h[i].ret <=> (~h[i].on_before /\ RunAt(h, i, TRUE) = k)
                  /\ h[i].ret => h[i].runs_after[1] = k
            /\ (Len(h) > 0 /\ h[Len(h)].ret) => state[key].lava_run = k
            /\ (k = 3 /\ IsLavaSeq(h) = <<TRUE, TRUE, TRUE, TRUE, TRUE>>)
                  => RetSeq(h) = <<FALSE, FALSE, TRUE, FALSE, FALSE>>

C1_Witness ==
    /\ k = 3
    /\ \E key \in DOMAIN obsLog :
          /\ IsLavaSeq(obsLog[key]) = <<TRUE, TRUE, TRUE, TRUE, TRUE>>
          /\ RetSeq(obsLog[key]) = <<FALSE, FALSE, TRUE, FALSE, FALSE>>

\* C2: a non-hazard observation resets the hazard run to zero, so every
\* trigger has K hazard observations in a row behind it, none of them before
\* the most recent non-hazard one; K = 2 and true, false, true, true give
\* [false, false, false, true].
C2_FalseResetsRun ==
    \A key \in DOMAIN obsLog :
        LET h == obsLog[key] IN
        /\ \A i \in 1..Len(h) :
              /\ ~h[i].is_lava => h[i].runs_after[1] = 0
              /\ h[i].ret => \A j \in (i - k + 1)..i : j >= 1 /\ h[j].is_lava
        /\ (Len(h) > 0 /\ ~h[Len(h)].is_lava) => state[key].lava_run = 0
        /\ (k = 2 /\ IsLavaSeq(h) = <<TRUE, FALSE, TRUE, TRUE>>)
              => RetSeq(h) = <<FALSE, FALSE, FALSE, TRUE>>

C2_Witness ==
    /\ k = 2
    /\ \E key \in DOMAIN obsLog :
          /\ IsLavaSeq(obsLog[key]) = <<TRUE, FALSE, TRUE, TRUE>>
          /\ RetSeq(obsLog[key]) = <<FALSE, FALSE, FALSE, TRUE>>

\* C3: edge-triggered: an observe on a key that is Active returns false, and
\* between two true returns for one key there is a call that took the key from
\* Active to Idle.
C3_EdgeTriggered ==
    \A key \in DOMAIN obsLog :
        LET h == obsLog[key] IN
        /\ \A i \in 1..Len(h) : h[i].on_before => ~h[i].ret
        /\ \A i \in 1..Len(h) : h[i].ret => h[i].on_after
        /\ \A i \in 1..Len(h), j \in 1..Len(h) :
              (i < j /\ h[i].ret /\ h[j].ret)
                  => \E l \in (i + 1)..(j - 1) : h[l].on_before /\ ~h[l].on_after

\* A key triggered, was observed on the hazard again while Active, and
\* triggered a second time later.
C3_Witness ==
    \E key \in DOMAIN obsLog :
        LET h == obsLog[key] IN
        \E i \in 1..Len(h), j \in 1..Len(h), l \in 1..Len(h) :
            /\ i < j /\ j < l
            /\ h[i].ret /\ h[l].ret
            /\ h[j].on_before /\ h[j].is_lava /\ ~h[j].ret

\* C4: an Active key becomes Idle exactly on a non-hazard observation whose
\* run of consecutive non-hazard observations has reached M; a shorter gap
\* leaves it Active, and the hazard observation that follows does not trigger.
C4_ClearAfterM ==
    \A key \in DOMAIN obsLog :
        LET h == obsLog[key] IN
        \A i \in 1..Len(h) :
            h[i].on_before =>
                /\ ~h[i].on_after <=> (~h[i].is_lava /\ RunAt(h, i, FALSE) >= m)
                /\ (~h[i].on_after /\ m >= 1) => RunAt(h, i, FALSE) = m
                /\ h[i].is_lava => (h[i].on_after /\ ~h[i].ret)

\* An Active key saw a gap shorter than M, came back to the hazard without a
\* trigger, and later became Idle.
C4_Witness ==
    \E key \in DOMAIN obsLog :
        LET h == obsLog[key] IN
        \E i \in 1..Len(h), j \in 1..Len(h) :
            /\ i + 1 < j
            /\ h[i].on_before /\ ~h[i].is_lava /\ h[i].on_after
            /\ h[i + 1].is_lava /\ ~h[i + 1].ret
            /\ h[j].on_before /\ ~h[j].on_after

\* C5: for every key of the debouncer state exactly one of lava_run and
\* safe_run is non-zero; each observe adds one to the counter that matches
\* is_lava and sets the other to zero.
C5_RunsExclusive ==
    /\ DOMAIN state = {key \in DOMAIN obsLog : Len(obsLog[key]) > 0}
    /\ \A key \in DOMAIN state :
          /\ (state[key].lava_run = 0) # (state[key].safe_run = 0)
          /\ <<state[key].lava_run, state[key].safe_run>>
                = obsLog[key][Len(obsLog[key])].runs_after
    /\ \A key \in DOMAIN obsLog :
          \A i \in 1..Len(obsLog[key]) :
              LET e == obsLog[key][i] IN
              e.runs_after = IF e.is_lava THEN <<e.runs_before[1] + 1, 0>>
                                          ELSE <<0, e.runs_before[2] + 1>>

\* Two keys, one with a hazard run of two, the other with a safe run, after a
\* frame advance.
C5_Witness ==
    /\ frame_index > 0
    /\ \E a \in DOMAIN state, b \in DOMAIN state :
          /\ state[a].lava_run = 2 /\ state[a].safe_run = 0
          /\ state[b].lava_run = 0 /\ state[b].safe_run >= 1
          /\ Len(obsLog[b]) >= 2

\* ------------------------------------------------------- claims: mappers
\* The cell index r holds the coordinate v of an axis of n cells: 0 below the
\* grid, n - 1 at or beyond its end, and r <= v < r + 1 inside.
HoldsCoord(v, r, n) ==
    /\ r \in 0..(n - 1)
    /\ IF Less(v, 0) THEN r = 0
       ELSE IF ~Less(v, n) THEN r = n - 1
       ELSE ~Less(v, r) /\ Less(v, r + 1)

\* C6: PixelToGridMapper.pixel_to_grid_cell returns oob true exactly when the
\* unclamped mapped coordinate lies below 0 or at or beyond rows / cols, and
\* returns the cell that holds the coordinate after clamping into the grid;
\* with the identity on 8x8, pixel (0,0) gives (0,0,false) and pixel
\* (10000,10000) gives (7,7,true).
C6_PlainCellAndOob ==
    (mapped # <<>> /\ mapped.mapper = "plain") =>
        LET f == pixel_to_grid_float(H, mapped.x, mapped.y)
            out == mapped.out
        IN  /\ out[3] = (\/ Floor(f[1]) < 0 \/ Floor(f[2]) < 0
                         \/ Floor(f[1]) >= mapper_rows \/ Floor(f[2]) >= mapper_cols)
            /\ HoldsCoord(f[1], out[1], mapper_rows)
            /\ HoldsCoord(f[2], out[2], mapper_cols)
            /\ (H = Identity /\ mapper_rows = 8 /\ mapper_cols = 8) =>
                  /\ (mapped.x = 0 /\ mapped.y = 0) => out = <<0, 0, FALSE>>
                  /\ (mapped.x = 10000 /\ mapped.y = 10000) => out = <<7, 7, TRUE>>

C6_Witness ==
    /\ mapped # <<>> /\ mapped.mapper = "plain"
    /\ H = Identity /\ mapper_rows = 8 /\ mapper_cols = 8
    /\ mapped.x = 10000 /\ mapped.y = 10000
    /\ mapped.out = <<7, 7, TRUE>>

\* ------------------------------------------------ claims: RobustLavaServer
\* A cell of the grid, of the server's extent and of the mapper's.
InGrid(g) ==
    /\ 0 <= g[1] /\ g[1] < rows /\ g[1] < mapper_rows
    /\ 0 <= g[2] /\ g[2] < cols /\ g[2] < mapper_cols

\* The cells a payload carries.
PayloadGrids(p) ==
    IF p.type = "detection_frame"
    THEN {p.persons[i].left_foot.grid : i \in DOMAIN p.persons}
         \cup {p.persons[i].right_foot.grid : i \in DOMAIN p.persons}
    ELSE {p.grid}

\* C7: every grid cell carried in a broadcast message (each limb's grid of a
\* detection_frame, the grid of an event_on_lava) lies in [0, rows) x [0, cols),
\* whatever the pixels are, with or without a transform.
C7_MessageCellsInGrid ==
    \A i \in DOMAIN broadcasts : \A g \in PayloadGrids(broadcasts[i].payload) : InGrid(g)

\* A pass with a transform delivered a detection_frame with a limb outside the
\* calibrated area, and an event_on_lava after it.
C7_Witness ==
    /\ H # <<>>
    /\ Len(broadcasts) >= 2
    /\ broadcasts[1].to # {}
    /\ broadcasts[1].payload.type = "detection_frame"
    /\ \E i \in DOMAIN broadcasts[1].payload.persons :
          broadcasts[1].payload.persons[i].right_foot.oob
    /\ broadcasts[2].payload.type = "event_on_lava"

\* C8: without a transform every hazard test of every pass of the loop yields
\* is_lava = FALSE, whatever lava_tiles holds, and no event_on_lava is queued.
C8_NoHazardWithoutTransform ==
    (H = <<>> /\ tick # <<>>) =>
        /\ \A i \in DOMAIN tick.tests : ~tick.tests[i].is_lava
        /\ tick.events = <<>>


\* ------------------------------------------------------- claims: tracker
\* The centroids of two detections are more than max_distance apart.
FarApart(d1, d2) ==
    Dist2(Centroid2(d1), Centroid2(d2)) > 4 * MaxDistance * MaxDistance

\* The last call found no tracks and was given two detections far apart.
FreshFarPair ==
    /\ last # <<>>
    /\ last.ids_before = {}
    /\ Len(last.dets) = 2
    /\ FarApart(last.dets[1], last.dets[2])

\* The last call was given the two detections, far apart, that the call
\* before it had registered into a tracker without tracks.
RepeatedFarPair ==
    /\ last # <<>>
    /\ last.repeat /\ last.prev_fresh
    /\ Len(last.dets) = 2
    /\ FarApart(last.dets[1], last.dets[2])

\* The tracker holds exactly the ids n and n + 1, for detections d[1] and d[2],
\* both just seen, and n + 2 is the next id.
HoldsPair(n, d) ==
    /\ DOMAIN objects = {n, n + 1}
    /\ DOMAIN disappeared = {n, n + 1}
    /\ objects[n].last_det = d[1] /\ objects[n + 1].last_det = d[2]
    /\ disappeared[n] = 0 /\ disappeared[n + 1] = 0
    /\ next_id = n + 2

\* C9: an update of a tracker without tracks with two detections far apart
\* registers exactly two tracks under the next two ids; an update right after
\* it with the same two detections keeps both ids, each with a counter of 0,
\* and allocates no id.
C9_RegisterTwoThenKeep ==
    /\ FreshFarPair => (HoldsPair(last.next_id_before, last.dets) /\ ~last.raised)
    /\ RepeatedFarPair =>
          /\ last.ids_before = {last.next_id_before - 2, last.next_id_before - 1}
          /\ HoldsPair(last.next_id_before - 2, last.dets)
          /\ ~last.raised

C9_Witness ==
    /\ RepeatedFarPair
    /\ HoldsPair(last.next_id_before - 2, last.dets)

\* C10: ids are handed out in increasing order from 0: every live id is below
\* next_id, the ids an update adds are exactly the ids from the old next_id up
\* to the new one, and no id below the old next_id comes back once its track
\* is gone; a detection registered after its track was removed has a new id.
C10_IdsNeverReused ==
    /\ \A id \in DOMAIN objects : id \in 0..(next_id - 1)
    /\ DOMAIN disappeared = DOMAIN objects
    /\ last = <<>> => next_id = 0
    /\ last # <<>> =>
          /\ next_id >= last.next_id_before
          /\ DOMAIN objects \ last.ids_before = last.next_id_before..(next_id - 1)
          /\ \A r \in last.removed \cup last.prev_removed : r[1] \notin DOMAIN objects
          /\ (Len(last.dets) > 0 /\ last.ids_before = {}) =>
                \A i \in 1..Len(last.dets) :
                    objects[last.next_id_before + i - 1].last_det = last.dets[i]

\* A track was removed by one update and its detection registered again by
\* the next, under a larger id.
C10_Witness ==
    /\ last # <<>>
    /\ \E r \in last.prev_removed :
          \E id \in DOMAIN objects \ last.ids_before :
              objects[id].last_det = r[2] /\ id > r[1]

\* C11: a track left without a matching detection in more than max_disappeared
\* update calls in a row, each with no more detections than tracks, is removed
\* by the call in which that streak first exceeds max_disappeared (so no track
\* held after a call has a longer streak), and a removed id is not held again.
C11_EvictedAfterMaxDisappeared ==
    last # <<>> =>
        /\ \A id \in DOMAIN objects : last.streak[id] <= max_disappeared
        /\ \A r \in last.removed \cup last.prev_removed : r[1] \notin DOMAIN objects

\* --------------------------------------- claims: the messages of the clients
\* C12: in every state of the server, whatever tile_update and restart_game
\* messages, demo fills and passes of the loop led to it, every cell of
\* lava_tiles has 0 <= row < rows and 0 <= col < cols.
C12_HazardSetInGrid ==
    lava_tiles \subseteq (0..(rows - 1)) \X (0..(cols - 1))

\* A demo fill was made, a later pass of the loop has run and there are cells.
C12_Witness ==
    /\ last_demo_time = "set" /\ lava_tiles # {}
    /\ frame_id = MaxTicks

\* The lists whose entries are all pairs of integers.
WellFormed(incoming) ==
    \A j \in DOMAIN incoming :
        /\ IsPair(incoming[j])
        /\ incoming[j].items[1].type = "int" /\ incoming[j].items[2].type = "int"

\* The pairs of a list that are cells of the grid.
InRangePairs(incoming, nrows, ncols) ==
    {cell \in (0..(nrows - 1)) \X (0..(ncols - 1)) :
        \E j \in DOMAIN incoming : incoming[j] = JPair(cell[1], cell[2])}

\* C13: right after a tile_update with a list of integer pairs, lava_tiles is
\* exactly the set of the list's pairs that are cells of the grid, whatever
\* it held before; [[0,0],[1,1],[99,99]] on an 8x8 grid leaves {(0,0),(1,1)}.
C13_TileUpdateReplaces ==
    (hist # <<>> /\ hist.type = "tile_update" /\ WellFormed(hist.body)) =>
        /\ lava_tiles = InRangePairs(hist.body, rows, cols)
        /\ (/\ hist.body = <<JPair(0, 0), JPair(1, 1), JPair(99, 99)>>
            /\ rows = 8 /\ cols = 8) => lava_tiles = {<<0, 0>>, <<1, 1>>}

\* The list of the example was taken on the 8x8 grid, and a cell that was
\* there before is gone.
C13_Witness ==
    /\ hist # <<>> /\ hist.type = "tile_update"
    /\ hist.body = <<JPair(0, 0), JPair(1, 1), JPair(99, 99)>>
    /\ rows = 8 /\ cols = 8
    /\ hist.lava_tiles \ lava_tiles # {}

\* C14: right after a tile_update whose list has an entry that is no pair of
\* integers, lava_tiles is the set of the list's integer pairs that are cells
\* of the grid, and the client that sent it is still connected.
C14_MalformedEntryDropped ==
    (hist # <<>> /\ hist.type = "tile_update" /\ ~WellFormed(hist.body)) =>
        /\ lava_tiles = InRangePairs(hist.body, rows, cols)
        /\ hist.client \in clients

\* C15: right after a restart_game, whatever the session was, game_active is
\* true, collision_detected false and collision_message empty; and the
\* detection_frame of the next pass of the loop reports game_active true, and
\* collision_detected true only if that pass queued an event.
C15_RestartResetsSession ==
    /\ (hist # <<>> /\ hist.type = "restart_game") =>
           game_active /\ ~collision_detected /\ collision_message = <<>>
    /\ (hist # <<>> /\ hist.type = "frame_after_restart" /\ ~tick.raised) =>
           /\ broadcasts[1].payload.type = "detection_frame"
           /\ broadcasts[1].payload.game_active
           /\ broadcasts[1].payload.collision_detected <=> (tick.events # <<>>)

\* A restart_game cleared a collision, and the next pass, which queued no
\* event, delivered a detection_frame without one.
C15_Witness ==
    /\ hist # <<>> /\ hist.type = "frame_after_restart" /\ hist.collision_detected
    /\ ~tick.raised /\ tick.events = <<>>
    /\ broadcasts[1].to # {}
    /\ ~broadcasts[1].payload.collision_detected

\* The pass after a restart_game queued an event.
C15_WitnessEvent ==
    /\ hist # <<>> /\ hist.type = "frame_after_restart"
    /\ ~tick.raised /\ tick.events # <<>>

\* C16: right after a message that is no JSON, or that is JSON with a type the
\* server does not know or with none, lava_tiles and the session are what
\* they were, and the client that sent it is still connected, so that its
\* next message is taken.
C16_OtherMessageIgnored ==
    (hist # <<>> /\ hist.type \in OtherMessages) =>
        /\ lava_tiles = hist.lava_tiles
        /\ game_active = hist.game_active
        /\ collision_detected = hist.collision_detected
        /\ collision_message = hist.collision_message
        /\ hist.client \in clients

\* ------------------------------------------------ claims: the passes of the loop
\* The hazard tests of the last pass that ask for an event: observe returned
\* true, the cell is a hazard, the session is active and the last event was
\* queued more than the cooldown ago.
Qualifying ==
    {i \in DOMAIN tick.tests :
        /\ tick.tests[i].triggered /\ tick.tests[i].is_lava
        /\ tick.active
        /\ tick.gap > CollisionCooldown}

\* C17: a pass of the loop queues an event for a limb if and only if its test
\* asks for one and no earlier test of the pass did (after which no time has
\* passed since the last event): so at most one event per pass, none within
\* the cooldown of the last one, whatever person triggers.
C17_EventIffCooledDown ==
    (tick # <<>> /\ ~tick.raised) =>
        /\ Qualifying = {} => tick.events = <<>>
        /\ Qualifying # {} =>
              /\ Len(tick.events) = 1
              /\ \E i \in Qualifying :
                    /\ \A j \in Qualifying : i <= j
                    /\ tick.events[1].person_id = tick.tests[i].person_id
                    /\ tick.events[1].foot = tick.tests[i].foot
                    /\ tick.events[1].grid = tick.tests[i].grid
        /\ tick.events # <<>> => tick.gap > CollisionCooldown

\* A person's limb triggered on a hazard exactly the cooldown after the event
\* of another person, and no event was queued.
C17_Witness ==
    /\ tick # <<>> /\ ~tick.raised
    /\ tick.gap = CollisionCooldown
    /\ tick.events = <<>>
    /\ \E i \in DOMAIN tick.tests :
          /\ tick.tests[i].triggered /\ tick.tests[i].is_lava
          /\ collision_message # <<>>
          /\ tick.tests[i].person_id # collision_message.person_id

\* In pass n one person was tracked, with the left foot on the hazard (0, 0)
\* and the right foot on no hazard.
LeftOnHazard(n) ==
    /\ Len(hist[n].tests) = 2
    /\ hist[n].tests[1].foot = "left" /\ hist[n].tests[1].grid = <<0, 0>>
    /\ hist[n].tests[1].is_lava
    /\ ~hist[n].tests[2].is_lava

\* C18: with the identity transform, a 2x2 grid, K = 3 and the hazard (0, 0),
\* three passes in a row that find the left foot of the one tracked person on
\* (0, 0), the right foot on a safe cell, after a pass that did not (or none),
\* queue exactly one event: the third does, for that person, foot 'left',
\* grid (0, 0) and consecutive_frames = K.
C18_ThirdTickFires ==
    \A n \in 3..Len(hist) :
        (/\ LeftOnHazard(n - 2) /\ LeftOnHazard(n - 1) /\ LeftOnHazard(n)
         /\ n > 3 => ~LeftOnHazard(n - 3)) =>
            /\ hist[n - 2].events = <<>>
            /\ hist[n - 1].events = <<>>
            /\ hist[n].events = <<[type |-> "event_on_lava",
                                   person_id |-> hist[n].tests[1].person_id,
                                   foot |-> "left", grid |-> <<0, 0>>,
                                   consecutive_frames |-> DefaultK]>>

\* Three passes found the left foot on the hazard and the third queued an event.
C18_Witness ==
    /\ Len(hist) >= 3
    /\ LeftOnHazard(Len(hist) - 2) /\ LeftOnHazard(Len(hist) - 1) /\ LeftOnHazard(Len(hist))
    /\ hist[Len(hist)].events # <<>>
    /\ lava_tiles = {<<0, 0>>} /\ k = 3 /\ H = Identity /\ rows = 2 /\ cols = 2

\* C19: the last pass of the loop handed to broadcast first one
\* detection_frame, which lists every track the tracker holds, and then each
\* event it queued, one call each and in their order; if it queued an event,
\* the detection_frame already has collision_detected true.
C19_SnapshotThenEvents ==
    tick # <<>> =>
        /\ Len(broadcasts) = 1 + Len(tick.events)
        /\ broadcasts[1].payload.type = "detection_frame"
        /\ Len(broadcasts[1].payload.persons) = Cardinality(DOMAIN objects)
        /\ {broadcasts[1].payload.persons[i].person_id :
               i \in DOMAIN broadcasts[1].payload.persons} = DOMAIN objects
        /\ \A j \in DOMAIN tick.events : broadcasts[j + 1].payload = tick.events[j]
        /\ tick.events # <<>> => broadcasts[1].payload.collision_detected

\* C20: in every call of broadcast of the last pass, the message went to
\* every client that was connected but those whose send raised, exactly
\* those were removed, the next call found the others connected, and every
\* message of the pass was still handed over; after the pass the loop is
\* running and the others are still connected.
C20_FailedSendDropsOnlyThatClient ==
    (tick # <<>> /\ ~tick.raised) =>
        /\ Len(broadcasts) = 1 + Len(tick.events)
        /\ \A j \in DOMAIN broadcasts :
              /\ broadcasts[j].to = broadcasts[j].clients \ broadcasts[j].failed
              /\ broadcasts[j].left = broadcasts[j].clients \ broadcasts[j].failed
              /\ j > 1 => broadcasts[j].clients = broadcasts[j - 1].left
        /\ pc = "sent" =>
              /\ running
              /\ broadcasts[Len(broadcasts)].left \subseteq clients

\* Of two connected clients the send to the first raised in the
\* detection_frame; the second received it and the event after it.
C20_Witness ==
    /\ tick # <<>> /\ ~tick.raised
    /\ Len(broadcasts) = 2
    /\ broadcasts[1].clients = {1, 2} /\ broadcasts[1].failed = {1}
    /\ broadcasts[1].to = {2} /\ broadcasts[2].to = {2}
    /\ pc = "sent" /\ running /\ clients = {2}

\* ---------------------------------------------------- claims: run() as a whole
\* C21: after a pass of the loop in which the detector raised, the loop is
\* still running, the tracker was updated with an empty list and a
\* detection_frame was handed to broadcast.
C21_DetectorErrorIsNoDetection ==
    (hist # <<>> /\ hist[Len(hist)] = "process_raises") =>
        /\ running
        /\ last # <<>> /\ last.dets = <<>>
        /\ Len(broadcasts) >= 1

\* How often a call was made.
Calls(name) == Cardinality({i \in DOMAIN hist : hist[i] = name})

\* C22: when run() has ended, however it did (the operator quit, a pass of
\* the loop raised, the listener could not be started or not be closed), the
\* camera was released once, the detector closed once, and the listener, if
\* there was one, closed.
C22_ReleasedOnceOnEveryExit ==
    pc = "done" =>
        /\ Calls("cap.release") = 1
        /\ Calls("pose.close") = 1
        /\ Calls("serve") = 1 => Calls("close") = 1 /\ Calls("wait_closed") = 1

\* ---------------------------------------- claims: the hazard set within a pass
\* The sets a whole tile_update or a whole demo fill leaves, and the empty set
\* of the constructor.
CompleteSets ==
    {{}} \cup {NewTiles(incoming, rows, cols) : incoming \in TileLists}
         \cup (IF demo_enabled THEN DemoFills ELSE {})

\* C23: in the last pass of the loop one value of lava_tiles, the one the pass
\* found, answers every hazard test, of every person and both limbs, and
\* that value is a set as a whole tile_update or demo fill (or the
\* constructor) left it, whenever the handlers of the clients ran.
C23_OneHazardSetPerTick ==
    (tick # <<>> /\ ~tick.raised) =>
        /\ hist.lava_tiles \in CompleteSets
        /\ \A i \in DOMAIN tick.tests :
              tick.tests[i].is_lava <=>
                  /\ InGrid(tick.tests[i].grid)
                  /\ tick.tests[i].grid \in hist.lava_tiles

\* A pass tested two persons against a set that a tile_update had put in the
\* place of another since the pass before, and found a limb of each on a
\* hazard; the set has changed again since.
C23_Witness ==
    /\ tick # <<>> /\ ~tick.raised
    /\ frame_id > 1
    /\ Len(tick.tests) = 4
    /\ tick.tests[1].is_lava /\ tick.tests[3].is_lava
    /\ hist.lava_tiles = {<<0, 0>>, <<0, 1>>} /\ lava_tiles = {}
    /\ ~demo_enabled

\* C24: with the datagram mirror enabled, every message the last pass handed
\* to broadcast, its detection_frame and each of its events, was sent to the
\* datagram socket, with clients connected or without.
C24_EveryMessageMirrored ==
    (tick # <<>> /\ ~tick.raised /\ udp_enabled) =>
        /\ Len(broadcasts) = 1 + Len(tick.events)
        /\ \A j \in DOMAIN broadcasts : broadcasts[j].udp

\* ------------------------------------------- claims: the mapper of the server
\* The mapped coordinate <<row, col>> of a pixel before any clamping
\* (robust_mapping.py:46-49), or (-1, -1) without a transform.
Unclamped(Hm, x, y) ==
    IF Hm = <<>> THEN <<Coord(-1, 1, FALSE), Coord(-1, 1, FALSE)>>
    ELSE <<Coord(Dot(Hm, x, y)[2], Dot(Hm, x, y)[3], TRUE),
           Coord(Dot(Hm, x, y)[1], Dot(Hm, x, y)[3], TRUE)>>

\* C25: the flag RobustPixelToGridMapper.pixel_to_grid_cell returns is true
\* exactly when the unclamped mapped row or column is negative, or the row
\* is at least rows, or the column at least cols.
C25_OobFromUnclamped ==
    (mapped # <<>> /\ mapped.mapper = "robust") =>
        LET f == Unclamped(H, mapped.x, mapped.y)
        IN  mapped.out[3] = (\/ Less(f[1], 0) \/ Less(f[2], 0)
                             \/ ~Less(f[1], mapper_rows) \/ ~Less(f[2], mapper_cols))

\* C26: in the last pass of the loop no limb that the mapper flagged as out of
\* bounds was tested as on a hazard, and no event names such a limb, whatever
\* the cell it was clamped to.
C26_OobLimbNeverHazard ==
    (tick # <<>> /\ ~tick.raised) =>
        \A i \in DOMAIN tick.tests :
            tick.tests[i].oob =>
                /\ ~tick.tests[i].is_lava
                /\ \A j \in DOMAIN tick.events :
                      ~(/\ tick.events[j].person_id = tick.tests[i].person_id
                        /\ tick.events[j].foot = tick.tests[i].foot)

\* ---------------------------------- claims: matching, ageing and registering
\* C27: after an update call that returned, with at least one detection and at
\* least as many tracks as detections, every track the call matched to a
\* detection is held, has disappeared = 0, and has the matched detection as
\* its last detection and that detection's centroid.
C27_MatchedTracksReset ==
    (/\ last # <<>> /\ ~last.raised
     /\ Len(last.dets) >= 1
     /\ Cardinality(last.ids_before) >= Len(last.dets)) =>
        \A q \in last.matched :
            /\ q[1] \in DOMAIN objects
            /\ disappeared[q[1]] = 0
            /\ objects[q[1]].last_det = last.dets[q[2]]
            /\ objects[q[1]].centroid = Centroid2(last.dets[q[2]])

\* C28: in an update call that returns, with at least one detection and at
\* least as many tracks as detections, every track left unmatched has its
\* counter raised by exactly 1, and is removed exactly when the new value
\* exceeds max_disappeared; every matched track is kept and its counter is not
\* raised.
C28_UnmatchedAgedByOne ==
    [][(/\ ~last'.raised
        /\ Len(last'.dets) >= 1
        /\ Cardinality(DOMAIN objects) >= Len(last'.dets)) =>
          \A id \in DOMAIN objects :
              IF id \in {q[1] : q \in last'.matched}
              THEN id \in DOMAIN objects' /\ disappeared'[id] <= disappeared[id]
              ELSE IF disappeared[id] + 1 > max_disappeared
                   THEN id \notin DOMAIN objects'
                   ELSE /\ id \in DOMAIN objects'
                        /\ disappeared'[id] = disappeared[id] + 1]_vars

\* The detections of the last call that it matched to no track, in list order.
UnmatchedCols(call) ==
    SortedSeq((1..Len(call.dets)) \ {q[2] : q \in call.matched})

\* C29: an update call with more detections than tracks, and at least one
\* track, returns; it keeps every track it found, with the counter, centroid
\* and last detection of an unmatched track as they were, and it registers
\* every detection it left unmatched, in list order, under the ids from
\* next_id on, which no track held.
C29_MoreDetectionsRegisterOnly ==
    [][(/\ DOMAIN objects # {}
        /\ Len(last'.dets) > Cardinality(DOMAIN objects)) =>
          /\ ~last'.raised
          /\ \A id \in DOMAIN objects :
                /\ id \in DOMAIN objects'
                /\ id \notin {q[1] : q \in last'.matched} =>
                      /\ disappeared'[id] = disappeared[id]
                      /\ objects'[id] = objects[id]
          /\ LET un == UnmatchedCols(last')
             IN  /\ next_id' = next_id + Len(un)
                 /\ DOMAIN objects' = DOMAIN objects \cup (next_id..(next_id + Len(un) - 1))
                 /\ \A i \in DOMAIN un :
                       /\ next_id + i - 1 \notin DOMAIN objects
                       /\ objects'[next_id + i - 1].last_det = last'.dets[un[i]]
                       /\ disappeared'[next_id + i - 1] = 0]_vars

\* The last call was given two detections and found one track, which had
\* missed a frame; it matched neither detection, still holds the track with
\* its counter, and holds two new tracks.
C29_Witness ==
    /\ last # <<>> /\ ~last.raised
    /\ Len(last.dets) = 2 /\ Cardinality(last.ids_before) = 1
    /\ last.matched = {}
    /\ \A id \in last.ids_before : id \in DOMAIN objects /\ disappeared[id] = 1
    /\ Cardinality(DOMAIN objects) = 3

\* C30: an update call with no detection returns; it removes exactly the
\* tracks whose counter, raised by 1, exceeds max_disappeared, leaves every
\* other track with its counter raised by exactly 1 and its centroid and last
\* detection as they were, and registers nothing.
C30_NoDetectionsAgeAll ==
    [][Len(last'.dets) = 0 =>
          /\ ~last'.raised
          /\ next_id' = next_id
          /\ DOMAIN objects' =
                {id \in DOMAIN objects : disappeared[id] + 1 <= max_disappeared}
          /\ DOMAIN disappeared' = DOMAIN objects'
          /\ \A id \in DOMAIN objects' :
                /\ disappeared'[id] = disappeared[id] + 1
                /\ objects'[id] = objects[id]]_vars

\* The last call was given no detection and found two tracks: it removed one
\* and holds the other, which had been seen in the call before, with counter 1.
C30_Witness ==
    /\ last # <<>> /\ ~last.raised
    /\ last.dets = <<>>
    /\ Cardinality(last.ids_before) = 2
    /\ Cardinality(last.removed) = 1
    /\ \E id \in DOMAIN objects : disappeared[id] = 1

\* ------------------------------------------------ claims: the greedy matching
\* C31: the pairs <<track, detection>> an update call matched are one-to-one,
\* and the centroid the track had when the call began is within max_distance
\* of the centroid of its detection ((2 D)^2 <= (2 max_distance)^2).
C31_MatchingOneToOneAndBounded ==
    [][/\ \A q1 \in last'.matched, q2 \in last'.matched :
             (q1[1] = q2[1]) <=> (q1[2] = q2[2])
       /\ \A q \in last'.matched :
             /\ q[1] \in DOMAIN objects
             /\ q[2] \in DOMAIN last'.dets
             /\ Dist2(objects[q[1]].centroid, Centroid2(last'.dets[q[2]]))
                    <= 4 * MaxDistance * MaxDistance]_vars

\* The last call matched two tracks, each to its own detection.
C31_Witness ==
    /\ last # <<>> /\ ~last.raised
    /\ Cardinality(last.matched) = 2
    /\ Cardinality({q[1] : q \in last.matched}) = 2

\* The first detection of dets that is nearest to the centroid c.
NearestCol(c, dets) ==
    CHOOSE j \in DOMAIN dets :
        /\ \A j2 \in DOMAIN dets : Dist2(c, Centroid2(dets[j])) <= Dist2(c, Centroid2(dets[j2]))
        /\ \A j2 \in 1..(j - 1) : Dist2(c, Centroid2(dets[j])) < Dist2(c, Centroid2(dets[j2]))

\* C32: a track is only ever matched to the detection nearest to the centroid
\* it had when the call began; a track whose nearest detection the call gave
\* to another track is matched to nothing in this call, whatever other
\* detections are near it.
C32_OnlyNearestConsidered ==
    [][(Len(last'.dets) >= 1 /\ DOMAIN objects # {}) =>
          /\ \A q \in last'.matched :
                q[2] = NearestCol(objects[q[1]].centroid, last'.dets)
          /\ \A id \in DOMAIN objects :
                (\E q \in last'.matched :
                    /\ q[1] # id
                    /\ q[2] = NearestCol(objects[id].centroid, last'.dets)) =>
                    id \notin {q[1] : q \in last'.matched}]_vars

\* The last call found two tracks and two detections and matched one pair;
\* the other track, still held with the centroid it had, is within
\* max_distance of the other detection, and nearer to the matched one.
C32_Witness ==
    /\ last # <<>> /\ ~last.raised
    /\ Len(last.dets) = 2 /\ Cardinality(last.ids_before) = 2
    /\ Cardinality(last.matched) = 1
    /\ \E id \in (DOMAIN objects \cap last.ids_before) \ {q[1] : q \in last.matched} :
       \E j \in DOMAIN last.dets \ {q[2] : q \in last.matched} :
          /\ Dist2(objects[id].centroid, Centroid2(last.dets[j]))
                 <= 4 * MaxDistance * MaxDistance
          /\ NearestCol(objects[id].centroid, last.dets) # j

\* -------------------------------------------------------- claims: the demo fill
\* C33: the end of a pass, where _maybe_demo_tiles runs, leaves a non-empty
\* lava_tiles as it is; when it changes lava_tiles, the set was empty and the
\* new set has demo_tiles_num cells, all of them cells of the grid.
C33_DemoFillOnlyWhenEmpty ==
    [][(pc = "sent" /\ pc' = "loop") =>
          /\ lava_tiles # {} => lava_tiles' = lava_tiles
          /\ lava_tiles' # lava_tiles =>
                /\ lava_tiles = {}
                /\ Cardinality(lava_tiles') = demo_tiles_num
                /\ lava_tiles' \subseteq (0..(rows - 1)) \X (0..(cols - 1))]_vars

\* ------------------------------------------------ claims: the tracker's state
\* C34: every update call returns: none raises an IndexError or a KeyError.
C34_UpdateReturns ==
    last # <<>> => ~last.raised

\* C35: in every state of the tracker, after any number of update calls, the
\* ids with a track are the ids with a counter, and every counter is between
\* 0 and max_disappeared.
C35_CountersInRange ==
    /\ DOMAIN objects = DOMAIN disappeared
    /\ \A id \in DOMAIN objects :
          disappeared[id] >= 0 /\ disappeared[id] <= max_disappeared

\* The last call removed a track and left another at the limit.
C35_Witness ==
    /\ last # <<>> /\ ~last.raised
    /\ last.removed # {}
    /\ \E id \in DOMAIN objects : disappeared[id] = max_disappeared

\* C36: an update call with at least one detection and at least as many
\* tracks as detections registers nothing: next_id is unchanged, no id is held
\* that was not held before, and a detection the call matched to no track is
\* the last detection of no track.
C36_NoRegistrationWhenTracksSuffice ==
    [][(/\ Len(last'.dets) >= 1
        /\ Cardinality(DOMAIN objects) >= Len(last'.dets)) =>
          /\ next_id' = next_id
          /\ DOMAIN objects' \subseteq DOMAIN objects
          /\ LET un == UnmatchedCols(last')
             IN  \A i \in DOMAIN un, id \in DOMAIN objects' :
                     objects'[id].last_det # last'.dets[un[i]]]_vars

\* The last call found one track and was given one detection, farther than
\* max_distance from it: nothing was matched and only the old track is held.
C36_Witness ==
    /\ last # <<>> /\ ~last.raised
    /\ Len(last.dets) = 1 /\ Cardinality(last.ids_before) = 1
    /\ last.matched = {}
    /\ DOMAIN objects = last.ids_before
    /\ \A id \in DOMAIN objects :
          Dist2(objects[id].centroid, Centroid2(last.dets[1]))
              > 4 * MaxDistance * MaxDistance

\* ------------------------------------------------------ claims: the session
\* C37: game_active is true in every state of the server, whatever passes of
\* the loop, collisions, keys and messages led to it; every detection_frame
\* delivered reports game_active true, and every pass found it true.
C37_SessionAlwaysActive ==
    /\ game_active
    /\ \A j \in DOMAIN broadcasts :
          broadcasts[j].payload.type = "detection_frame" =>
              broadcasts[j].payload.game_active
    /\ (tick # <<>>) => tick.active

\* A pass queued an event and set the collision flag; the pass has ended and
\* the session is still active.
C37_Witness ==
    /\ tick # <<>> /\ ~tick.raised /\ tick.events # <<>>
    /\ collision_detected /\ collision_message # <<>>
    /\ pc = "loop"
    /\ game_active

\* ------------------------------------------- claims: suppressed and stale limbs
\* The test of the limb (person_id, foot) in a recorded pass, in a set: empty
\* when the pass did not test the limb.
TestsOf(pass, person_id, foot) ==
    {pass.tests[i] : i \in {j \in DOMAIN pass.tests :
                               /\ pass.tests[j].person_id = person_id
                               /\ pass.tests[j].foot = foot}}

\* The pass queued an event for the limb.
EventFor(pass, person_id, foot) ==
    \E j \in DOMAIN pass.events :
        pass.events[j].person_id = person_id /\ pass.events[j].foot = foot

\* The limb was tested, and found on a hazard, in every pass from a to b.
OnHazardThrough(a, b, person_id, foot) ==
    \A n \in a..b :
        /\ TestsOf(hist[n], person_id, foot) # {}
        /\ \A t \in TestsOf(hist[n], person_id, foot) : t.is_lava

\* C38: when a pass had a trigger for a limb and queued no event for it, no
\* later pass queues an event for that limb, or has a trigger for it, as long
\* as every pass since found the limb on a hazard, however long ago the
\* last event was.
C38_SuppressedTriggerConsumed ==
    \A a \in DOMAIN hist :
    \A i \in DOMAIN hist[a].tests :
        LET t == hist[a].tests[i]
        IN  (t.triggered /\ ~EventFor(hist[a], t.person_id, t.foot)) =>
                \A b \in (a + 1)..Len(hist) :
                    OnHazardThrough(a, b, t.person_id, t.foot) =>
                        /\ ~EventFor(hist[b], t.person_id, t.foot)
                        /\ \A u \in TestsOf(hist[b], t.person_id, t.foot) : ~u.triggered

\* The first pass had triggers for both feet and queued an event for the left
\* one only; the right foot stayed on the hazard, and the pass made now, with
\* the cooldown over, queued nothing.
C38_Witness ==
    /\ Len(hist) >= 2 /\ pc = "sent"
    /\ Len(hist[1].events) = 1 /\ EventFor(hist[1], 0, "left")
    /\ \E t \in TestsOf(hist[1], 0, "right") : t.triggered
    /\ OnHazardThrough(1, Len(hist), 0, "right")
    /\ tick.age > CollisionCooldown
    /\ tick.events = <<>>

\* C39: after a pass of the loop, every track the tracker holds, whatever its
\* counter of missed frames, is listed in the snapshot with the foot pixels of
\* its last detection, and both its feet were tested against the hazards at
\* the cells listed.
C39_StaleTracksStillTested ==
    (tick # <<>> /\ ~tick.raised) =>
        \A id \in DOMAIN objects :
            /\ \E i \in DOMAIN tick.persons :
                  /\ tick.persons[i].person_id = id
                  /\ tick.persons[i].left_foot.pixel = objects[id].last_det.left
                  /\ tick.persons[i].right_foot.pixel = objects[id].last_det.right
                  /\ \E j \in DOMAIN tick.tests :
                        /\ tick.tests[j].person_id = id /\ tick.tests[j].foot = "left"
                        /\ tick.tests[j].grid = tick.persons[i].left_foot.grid
                  /\ \E j \in DOMAIN tick.tests :
                        /\ tick.tests[j].person_id = id /\ tick.tests[j].foot = "right"
                        /\ tick.tests[j].grid = tick.persons[i].right_foot.grid

\* With K = 2, a pass without any detection queued an event for a person the
\* tracker still holds with a missed frame: the second hazard observation of
\* the run was made where the person was last seen.
C39_Witness ==
    /\ tick # <<>> /\ ~tick.raised
    /\ k = 2
    /\ last.dets = <<>>
    /\ \E j \in DOMAIN tick.events :
          /\ tick.events[j].person_id \in DOMAIN objects
          /\ disappeared[tick.events[j].person_id] > 0

\* C40: a restart_game leaves game_active true, the collision flag false and
\* the message empty, and changes nothing else: not lava_tiles, the tracker,
\* the debounce states or the time since the last event. In the pass that
\* follows it, a limb that was Active and is still on a hazard has no trigger
\* and no event, and no event is queued while the cooldown of the last event
\* is running.
C40_RestartKeepsTheRest ==
    [][/\ (hist' # <<>> /\ hist'.type = "restart_game") =>
             /\ game_active' /\ ~collision_detected' /\ collision_message' = <<>>
             /\ UNCHANGED <<lava_tiles, state, frame_index, k, m, next_id, objects,
                            disappeared, max_disappeared, collision_age, clients,
                            frame_id, rows, cols, last_demo_time, running, pc>>
       /\ (/\ hist # <<>> /\ hist.type = "restart_game"
           /\ hist' # <<>> /\ hist'.type = "frame_after_restart"
           /\ ~tick'.raised) =>
             /\ \A i \in DOMAIN tick'.tests :
                   LET t == tick'.tests[i]
                   IN  (/\ <<t.person_id, t.foot>> \in DOMAIN state
                        /\ state[<<t.person_id, t.foot>>].is_on_lava
                        /\ t.is_lava) =>
                           /\ ~t.triggered
                           /\ \A j \in DOMAIN tick'.events :
                                 ~(/\ tick'.events[j].person_id = t.person_id
                                   /\ tick'.events[j].foot = t.foot)
             /\ tick'.age <= CollisionCooldown => tick'.events = <<>>]_vars

\* A restart_game cleared a collision while the limb that caused it stood on
\* the hazard; the pass after it tested the limb on the hazard again, had no
\* trigger and queued no event, and the limb is still Active.
C40_Witness ==
    /\ hist # <<>> /\ hist.type = "frame_after_restart" /\ hist.collision_detected
    /\ ~tick.raised /\ tick.events = <<>>
    /\ ~collision_detected
    /\ \E i \in DOMAIN tick.tests :
          /\ tick.tests[i].is_lava /\ ~tick.tests[i].triggered
          /\ state[<<tick.tests[i].person_id, tick.tests[i].foot>>].is_on_lava

====
